---------------------------- MODULE Spec2Model ----------------------------
(***************************************************************************)
(* Model of the legal-document simplifier backend:                         *)
(*   - DocumentProcessor (app/services/document_processor.py): the text    *)
(*     extraction cascade of extract_text;                                 *)
(*   - AISimplifier (app/services/ai_simplifier.py): the normalisation of  *)
(*     the model reply (_parse_ai_response and the passes it calls),       *)
(*     simplify_document and answer_question.                              *)
(*                                                                         *)
(* Text is a TLA+ string, read with Len, SubSeq and \o.  Optional[str] is  *)
(* a record [some, v]; a call's outcome is a record [raised, val].         *)
(***************************************************************************)
EXTENDS Integers, Sequences, FiniteSets, TLC

(***************************************************************************)
(* Strings                                                                 *)
(***************************************************************************)
\* the character at position i (1-based) and the text from position i on
At(s, i) == SubSeq(s, i, i)
From(s, i) == SubSeq(s, i, Len(s))

\* the slice s[i-1:j] of Python: what there is of positions i..j
Slice(s, i, j) == SubSeq(s, i, IF j > Len(s) THEN Len(s) ELSE j)

\* a text of n characters c
RECURSIVE Rep(_, _)
Rep(c, n) ==
    IF n = 0 THEN ""
    ELSE Rep(c, n \div 2) \o Rep(c, n \div 2) \o (IF n % 2 = 1 THEN c ELSE "")

Whitespace == {" ", "\n", "\t", "\r"}
IsSpace(c) == c \in Whitespace

RECURSIVE LStrip(_)
LStrip(s) == IF Len(s) > 0 /\ IsSpace(At(s, 1)) THEN LStrip(From(s, 2)) ELSE s

RECURSIVE RStrip(_)
RStrip(s) ==
    IF Len(s) > 0 /\ IsSpace(At(s, Len(s))) THEN RStrip(SubSeq(s, 1, Len(s) - 1))
    ELSE s

\* str.strip()
Strip(s) == RStrip(LStrip(s))

\* sep.join(parts)
RECURSIVE Join(_, _)
Join(parts, sep) ==
    IF Len(parts) = 0 THEN ""
    ELSE IF Len(parts) = 1 THEN parts[1]
    ELSE parts[1] \o sep \o Join(Tail(parts), sep)

\* truthiness of a str
Truthy(s) == Len(s) > 0

\* Optional[str]
None == [some |-> FALSE, v |-> ""]
Some(s) == [some |-> TRUE, v |-> s]

\* the outcome of a call: a returned value or a raised exception
Ret(val) == [raised |-> FALSE, val |-> val]
Raise == [raised |-> TRUE, val |-> None]

(***************************************************************************)
(* Bounds and program constants of the extraction cascade                  *)
(***************************************************************************)
\* len(text.strip()) > 100 in _extract_pdf_text
MIN_PDF_TEXT == 100
\* len(text.strip()) > 10 in _extract_image_text
MIN_OCR_TEXT == 10
\* pages of a PDF, paragraphs and table rows of a DOCX
MaxPages == 2
MaxParagraphs == 2

DocumentType == {"pdf", "doc", "docx", "image", "text"}

Sp == " "
NL2 == "\n\n"

\* text of trimmed length n, bare and padded with whitespace
Bodies(n) == {Rep("a", n), Sp \o Rep("b", n) \o Sp}

\* what a PDF library may give for one page (None and "" are both falsy)
PageTexts ==
    {"", Sp, "aaa"}
        \cup Bodies(MIN_PDF_TEXT)
        \cup {Rep("c", MIN_PDF_TEXT - 1), Rep("b", MIN_PDF_TEXT + 1)}

SeqsUpTo(S, n) == UNION {[1..k -> S] : k \in 0..n}

\* what opening and reading the PDF bytes may do in a library
PdfReads ==
    {[err |-> TRUE, pages |-> <<>>]}
        \cup {[err |-> FALSE, pages |-> p] : p \in SeqsUpTo(PageTexts, MaxPages)}


\* what python-docx may give: the paragraphs and the cells of the table rows
MaxRows == 1
MaxCells == 2
ParagraphTexts == {"", Sp, "ab", " c "}
CellTexts == {Sp, " d"}
RowSet == SeqsUpTo(CellTexts, MaxCells) \ {<<>>}
DocxReads ==
    {[err |-> TRUE, paragraphs |-> <<>>, rows |-> <<>>]}
        \cup {[err |-> FALSE, paragraphs |-> p, rows |-> r] :
                p \in SeqsUpTo(ParagraphTexts, MaxParagraphs),
                r \in SeqsUpTo(RowSet, MaxRows)}

\* what the Vision API may give: the descriptions of response.text_annotations
MaxAnnotations == 1
VisionDescriptions ==
    {"", Sp, "aaa"}
        \cup Bodies(MIN_OCR_TEXT) \cup {Rep("b", MIN_OCR_TEXT + 1)}
VisionReads ==
    {[err |-> TRUE, texts |-> <<>>]}
        \cup {[err |-> FALSE, texts |-> t] :
                t \in SeqsUpTo(VisionDescriptions, MaxAnnotations)}

\* what pytesseract.image_to_string may give
TesseractTexts ==
    {"", "\n", "ab\n", Sp \o Rep("a", MIN_OCR_TEXT + 1) \o "\n"}
TesseractReads ==
    {[err |-> TRUE, text |-> ""]}
        \cup {[err |-> FALSE, text |-> t] : t \in TesseractTexts}

\* the bytes of a stored document: a sequence of bytes, each the character it
\* encodes, or InvalidByte for a byte that is not valid UTF-8
InvalidByte == "xFF"
Bytes(c, n) == [i \in 1..n |-> c]
TextBytes ==
    {<<>>, <<InvalidByte>>, <<" ">>, <<"a", "b">>, <<"a", InvalidByte, "b">>,
     Bytes("a", MIN_PDF_TEXT), Bytes("a", MIN_PDF_TEXT + 1)}
OpaqueBytes == {<<>>, <<"%">>}

\* StorageService.download_document: None, or the bytes of the blob
Downloads(ft) ==
    {[some |-> FALSE, v |-> <<>>]} \cup {Some(b) : b \in IF ft = "text" THEN TextBytes ELSE OpaqueBytes}

(***************************************************************************)
(* The extraction strategies: each runs in a worker with its own           *)
(* try/except, so an internal error comes back as None.                    *)
(***************************************************************************)
\* bytes.decode('utf-8', errors='ignore')
RECURSIVE Decode(_)
Decode(b) ==
    IF Len(b) = 0 THEN ""
    ELSE IF Len(b) = 1 THEN (IF b[1] = InvalidByte THEN "" ELSE b[1])
    ELSE Decode(SubSeq(b, 1, Len(b) \div 2))
            \o Decode(SubSeq(b, Len(b) \div 2 + 1, Len(b)))

\* the body shared by the two PDF libraries: join the truthy page texts
JoinPages(pages) == Join(SelectSeq(pages, Truthy), NL2)

extract_pdf_with_documentai(raw) == Ret(None)

extract_pdf_with_pdfplumber_NoCatch(raw) ==
    IF raw.err THEN Raise ELSE Ret(Some(JoinPages(raw.pages)))

extract_pdf_with_pdfplumber(raw) ==
    IF raw.err THEN Ret(None) ELSE Ret(Some(JoinPages(raw.pages)))

extract_pdf_with_pypdf2(raw) ==
    IF raw.err THEN Ret(None) ELSE Ret(Some(JoinPages(raw.pages)))

extract_pdf_with_ocr == Ret(None)

\* one table row: the stripped non-blank cells joined by ' | '
RowText(row) ==
    Join([i \in 1..Len(SelectSeq(row, LAMBDA c : Truthy(Strip(c)))) |->
            Strip(SelectSeq(row, LAMBDA c : Truthy(Strip(c)))[i])],
         " | ")

RowTexts(rows) == [i \in 1..Len(rows) |-> RowText(rows[i])]

extract_docx_text(raw) ==
    IF raw.err THEN Ret(None)
    ELSE Ret(Some(Join(SelectSeq(raw.paragraphs, LAMBDA p : Truthy(Strip(p)))
                         \o SelectSeq(RowTexts(raw.rows), Truthy),
                       NL2)))

extract_with_google_vision(raw) ==
    IF raw.err THEN Ret(None)
    ELSE IF Len(raw.texts) > 0 THEN Ret(Some(raw.texts[1]))
    ELSE Ret(None)

extract_with_tesseract(raw) ==
    IF raw.err THEN Ret(None) ELSE Ret(Some(Strip(raw.text)))

\* `text and len(text.strip()) > 100`
AcceptPdf_NonEmpty(text) == text.some /\ Truthy(text.v)

AcceptPdf_AtLeast(text) ==
    text.some /\ Truthy(text.v) /\ Len(Strip(text.v)) >= MIN_PDF_TEXT

AcceptPdf(text) ==
    text.some /\ Truthy(text.v) /\ Len(Strip(text.v)) > MIN_PDF_TEXT

\* `text and len(text.strip()) > 10`
AcceptVision_AtLeast(text) ==
    text.some /\ Truthy(text.v) /\ Len(Strip(text.v)) >= MIN_OCR_TEXT

AcceptVision(text) ==
    text.some /\ Truthy(text.v) /\ Len(Strip(text.v)) > MIN_OCR_TEXT

(***************************************************************************)
(* More of str: search, split, lower                                       *)
(***************************************************************************)
Min(S) == CHOOSE x \in S : \A y \in S : x <= y
Max(S) == CHOOSE x \in S : \A y \in S : x >= y

\* the positions at which sub occurs in s
Occurrences(s, sub) ==
    {i \in 1..(Len(s) - Len(sub) + 1) : SubSeq(s, i, i + Len(sub) - 1) = sub}

\* `sub in s`
Contains(s, sub) == Occurrences(s, sub) # {}

\* s.find(sub) + 1: the first position of sub in s, 0 when there is none
Find(s, sub) == IF Contains(s, sub) THEN Min(Occurrences(s, sub)) ELSE 0

\* s.rfind(sub) + 1
RFind(s, sub) == IF Contains(s, sub) THEN Max(Occurrences(s, sub)) ELSE 0

\* s.startswith(sub)
StartsWith(s, sub) == Len(s) >= Len(sub) /\ SubSeq(s, 1, Len(sub)) = sub

\* s.split(sep) for a one-character sep
RECURSIVE Split(_, _)
Split(s, sep) ==
    IF Find(s, sep) = 0 THEN <<s>>
    ELSE <<SubSeq(s, 1, Find(s, sep) - 1)>> \o Split(From(s, Find(s, sep) + 1), sep)

LowerOf ==
    [A |-> "a", B |-> "b", C |-> "c", D |-> "d", E |-> "e", F |-> "f", G |-> "g",
     H |-> "h", I |-> "i", J |-> "j", K |-> "k", L |-> "l", M |-> "m", N |-> "n",
     O |-> "o", P |-> "p", Q |-> "q", R |-> "r", S |-> "s", T |-> "t", U |-> "u",
     V |-> "v", W |-> "w", X |-> "x", Y |-> "y", Z |-> "z"]

\* s.lower()
RECURSIVE Lower(_)
Lower(s) ==
    IF Len(s) = 0 THEN ""
    ELSE (IF At(s, 1) \in DOMAIN LowerOf THEN LowerOf[At(s, 1)] ELSE At(s, 1))
            \o Lower(From(s, 2))

\* `sub in s.lower()`, for a lower-case sub
LowerContains(s, sub) ==
    \E i \in 1..(Len(s) - Len(sub) + 1) : Lower(SubSeq(s, i, i + Len(sub) - 1)) = sub

(***************************************************************************)
(* Python values as json.loads builds them.  Every value is a record       *)
(* [k, s, l, d]: k the type, s the text of a str (or of str(x) for a       *)
(* number, bool or None), l the items of a list, d the items of a dict in  *)
(* insertion order, each [key, val].                                       *)
(***************************************************************************)
JStr(s) == [k |-> "str", s |-> s, l |-> <<>>, d |-> <<>>]
JNum(s) == [k |-> "num", s |-> s, l |-> <<>>, d |-> <<>>]
JBool(s) == [k |-> "bool", s |-> s, l |-> <<>>, d |-> <<>>]
JNull == [k |-> "null", s |-> "None", l |-> <<>>, d |-> <<>>]
JList(l) == [k |-> "list", s |-> "", l |-> l, d |-> <<>>]
JDict(d) == [k |-> "dict", s |-> "", l |-> <<>>, d |-> d]

Item(key, val) == [key |-> key, val |-> val]

\* dict operations: `key in d`, `d[key]`, `d[key] = val`
Keys(v) == {v.d[i].key : i \in DOMAIN v.d}
Has(v, key) == key \in Keys(v)
Get(v, key) == v.d[CHOOSE i \in DOMAIN v.d : v.d[i].key = key].val
DictSet(v, key, val) ==
    IF Has(v, key)
    THEN JDict([i \in DOMAIN v.d |->
                   IF v.d[i].key = key THEN Item(key, val) ELSE v.d[i]])
    ELSE JDict(Append(v.d, Item(key, val)))

\* bool(x)
PyTruthy(v) ==
    CASE v.k = "str" -> Len(v.s) > 0
      [] v.k = "num" -> v.s # "0"
      [] v.k = "bool" -> v.s = "True"
      [] v.k = "null" -> FALSE
      [] v.k = "list" -> Len(v.l) > 0
      [] OTHER -> Len(v.d) > 0

\* str(x); repr(x) for what a list or dict holds (texts here hold no quote)
RECURSIVE PyStr(_)
RECURSIVE PyRepr(_)
PyStr(v) ==
    CASE v.k = "list" -> "[" \o Join([i \in DOMAIN v.l |-> PyRepr(v.l[i])], ", ") \o "]"
      [] v.k = "dict" ->
            "{" \o Join([i \in DOMAIN v.d |->
                           "'" \o v.d[i].key \o "': " \o PyRepr(v.d[i].val)], ", ")
                \o "}"
      [] OTHER -> v.s
PyRepr(v) == IF v.k = "str" THEN "'" \o v.s \o "'" ELSE PyStr(v)

\* x == y
RECURSIVE PyEq(_, _)
PyEq(a, b) ==
    /\ a.k = b.k
    /\ CASE a.k = "list" ->
              /\ Len(a.l) = Len(b.l)
              /\ \A i \in DOMAIN a.l : PyEq(a.l[i], b.l[i])
         [] a.k = "dict" ->
              /\ Keys(a) = Keys(b)
              /\ \A key \in Keys(a) : PyEq(Get(a, key), Get(b, key))
         [] OTHER -> a.s = b.s

(***************************************************************************)
(* json.loads, for texts without backslash escapes and with integer        *)
(* numbers.  A parse step gives [ok, v, i]: the value and the position     *)
(* after it; ok = FALSE is json.JSONDecodeError.                           *)
(***************************************************************************)
Parsed(v, i) == [ok |-> TRUE, v |-> v, i |-> i]
ParseError == [ok |-> FALSE, v |-> JNull, i |-> 0]

Digits == {"0", "1", "2", "3", "4", "5", "6", "7", "8", "9"}

RECURSIVE SkipWs(_, _)
SkipWs(s, i) == IF i <= Len(s) /\ IsSpace(At(s, i)) THEN SkipWs(s, i + 1) ELSE i

RECURSIVE SkipDigits(_, _)
SkipDigits(s, i) ==
    IF i <= Len(s) /\ At(s, i) \in Digits THEN SkipDigits(s, i + 1) ELSE i

\* a string literal opening at i: up to the next quote, no control character
ParseString(s, i) ==
    LET close == Find(From(s, i + 1), "\"")
        body == SubSeq(s, i + 1, i + close - 1)
    IN  IF close = 0 \/ \E c \in {"\n", "\t", "\r", "\\"} : Contains(body, c)
        THEN ParseError
        ELSE Parsed(JStr(body), i + close + 1)

ParseNumber(s, i) ==
    LET j == SkipDigits(s, IF At(s, i) = "-" THEN i + 1 ELSE i)
    IN  IF j = (IF At(s, i) = "-" THEN i + 1 ELSE i) THEN ParseError
        ELSE Parsed(JNum(SubSeq(s, i, j - 1)), j)

ParseLiteral(s, i) ==
    IF Slice(s, i, i + 3) = "null" THEN Parsed(JNull, i + 4)
    ELSE IF Slice(s, i, i + 3) = "true" THEN Parsed(JBool("True"), i + 4)
    ELSE IF Slice(s, i, i + 4) = "false" THEN Parsed(JBool("False"), i + 5)
    ELSE ParseError

RECURSIVE ParseValue(_, _)
RECURSIVE ParseElements(_, _, _)
RECURSIVE ParseMembers(_, _, _)

\* after one element of an array at i: ',' and the rest, or ']'
ParseElements(s, i, acc) ==
    LET r == ParseValue(s, i)
        j == SkipWs(s, r.i)
    IN  IF ~r.ok \/ j > Len(s) THEN ParseError
        ELSE IF At(s, j) = "," THEN ParseElements(s, SkipWs(s, j + 1), Append(acc, r.v))
        ELSE IF At(s, j) = "]" THEN Parsed(JList(Append(acc, r.v)), j + 1)
        ELSE ParseError

\* one "key": value member of an object at i, then ',' and the rest, or '}'
ParseMembers(s, i, acc) ==
    IF i > Len(s) \/ At(s, i) # "\"" THEN ParseError
    ELSE
        LET key == ParseString(s, i)
            c == SkipWs(s, key.i)
            r == ParseValue(s, SkipWs(s, c + 1))
            j == SkipWs(s, r.i)
        IN  IF ~key.ok \/ c > Len(s) \/ At(s, c) # ":" THEN ParseError
            ELSE IF ~r.ok \/ j > Len(s) THEN ParseError
            ELSE IF At(s, j) = ","
                 THEN ParseMembers(s, SkipWs(s, j + 1), DictSet(acc, key.v.s, r.v))
            ELSE IF At(s, j) = "}" THEN Parsed(DictSet(acc, key.v.s, r.v), j + 1)
            ELSE ParseError

ParseValue(s, i) ==
    IF i > Len(s) THEN ParseError
    ELSE IF At(s, i) = "\"" THEN ParseString(s, i)
    ELSE IF At(s, i) = "{" THEN
        IF SkipWs(s, i + 1) <= Len(s) /\ At(s, SkipWs(s, i + 1)) = "}"
        THEN Parsed(JDict(<<>>), SkipWs(s, i + 1) + 1)
        ELSE ParseMembers(s, SkipWs(s, i + 1), JDict(<<>>))
    ELSE IF At(s, i) = "[" THEN
        IF SkipWs(s, i + 1) <= Len(s) /\ At(s, SkipWs(s, i + 1)) = "]"
        THEN Parsed(JList(<<>>), SkipWs(s, i + 1) + 1)
        ELSE ParseElements(s, SkipWs(s, i + 1), <<>>)
    ELSE IF At(s, i) \in Digits \cup {"-"} THEN ParseNumber(s, i)
    ELSE ParseLiteral(s, i)

\* json.loads(s): one value and nothing but whitespace around it
json_loads(s) ==
    LET r == ParseValue(s, SkipWs(s, 1))
    IN  IF r.ok /\ SkipWs(s, r.i) = Len(s) + 1 THEN r ELSE ParseError

\* re.search(r'\{.*\}', s, re.DOTALL): from the first '{' to the last '}'
HasJsonMatch(s) == Find(s, "{") # 0 /\ RFind(s, "}") > Find(s, "{")
JsonMatch(s) == SubSeq(s, Find(s, "{"), RFind(s, "}"))

(***************************************************************************)
(* AISimplifier: the response normaliser                                   *)
(***************************************************************************)
ListFields == <<"key_points", "deadlines_obligations", "warnings", "next_steps">>

\* required_fields, in the order of the loop
RequiredFields ==
    <<"summary", "key_points", "important_terms", "deadlines_obligations",
      "warnings", "next_steps">>

DefaultOf(field) ==
    CASE field = "summary" -> JStr("")
      [] field = "important_terms" -> JDict(<<>>)
      [] OTHER -> JList(<<>>)

\* the loop body with the same coercion for the four sequence fields
RepairField_Uniform(content, field) ==
    IF ~Has(content, field) THEN DictSet(content, field, DefaultOf(field))
    ELSE IF field = "important_terms" /\ Get(content, field).k # "dict"
         THEN DictSet(content, field, JDict(<<>>))
    ELSE IF field # "summary" /\ field # "important_terms" /\ Get(content, field).k # "list"
         THEN DictSet(content, field, JList(<<JStr(PyStr(Get(content, field)))>>))
    ELSE content

\* one pass of the loop over required_fields: add or repair one field
RepairField(content, field) ==
    IF ~Has(content, field) THEN DictSet(content, field, DefaultOf(field))
    ELSE IF field = "key_points" /\ Get(content, field).k # "list"
         THEN DictSet(content, field, JList(<<JStr(PyStr(Get(content, field)))>>))
    ELSE IF field = "important_terms" /\ Get(content, field).k # "dict"
         THEN DictSet(content, field, JDict(<<>>))
    ELSE IF /\ field \in {"deadlines_obligations", "warnings", "next_steps"}
            /\ Get(content, field).k # "list"
         THEN DictSet(content, field,
                      IF PyTruthy(Get(content, field))
                      THEN JList(<<JStr(PyStr(Get(content, field)))>>)
                      ELSE JList(<<>>))
    ELSE content

RECURSIVE RepairFields(_, _)
RepairFields(content, fields) ==
    IF Len(fields) = 0 THEN content
    ELSE RepairFields(RepairField(content, Head(fields)), Tail(fields))

\* [str(x).strip() for x in items if str(x).strip()]
CleanList(v) ==
    LET kept == SelectSeq(v.l, LAMBDA x : Truthy(Strip(PyStr(x))))
    IN  JList([i \in DOMAIN kept |-> JStr(Strip(PyStr(kept[i])))])

\* str(content["summary"]).strip()
SummaryClean(v) == JStr(Strip(PyStr(v)))

\* the loop over important_terms.items(): the test comes before the strip
RECURSIVE CleanTerms(_, _)
CleanTerms(items, cleaned) ==
    IF Len(items) = 0 THEN cleaned
    ELSE CleanTerms(Tail(items),
            IF Truthy(Head(items).key) /\ PyTruthy(Head(items).val)
            THEN DictSet(cleaned, Strip(Head(items).key),
                         JStr(Strip(PyStr(Head(items).val))))
            ELSE cleaned)

RECURSIVE CleanLists(_, _)
CleanLists(content, fields) ==
    IF Len(fields) = 0 THEN content
    ELSE CleanLists(DictSet(content, Head(fields), CleanList(Get(content, Head(fields)))),
                    Tail(fields))

\* _validate_and_clean_content
validate_and_clean_content(content) ==
    LET repaired == RepairFields(content, RequiredFields)
        summed == DictSet(repaired, "summary", SummaryClean(Get(repaired, "summary")))
        listed == CleanLists(summed, ListFields)
    IN  DictSet(listed, "important_terms",
                CleanTerms(Get(listed, "important_terms").d, JDict(<<>>)))

\* the structure _parse_text_response starts from
EmptyContent ==
    JDict(<<Item("summary", JStr("")), Item("key_points", JList(<<>>)),
            Item("important_terms", JDict(<<>>)),
            Item("deadlines_obligations", JList(<<>>)),
            Item("warnings", JList(<<>>)), Item("next_steps", JList(<<>>))>>)

\* the section a line switches to by a keyword in line.lower(), "" for none
DetectSection(line) ==
    IF LowerContains(line, "summary") THEN "summary"
    ELSE IF LowerContains(line, "key points") \/ LowerContains(line, "main points") THEN "key_points"
    ELSE IF LowerContains(line, "terms") \/ LowerContains(line, "definitions") THEN "important_terms"
    ELSE IF LowerContains(line, "deadline") \/ LowerContains(line, "obligation")
         THEN "deadlines_obligations"
    ELSE IF LowerContains(line, "warning") \/ LowerContains(line, "risk") THEN "warnings"
    ELSE IF LowerContains(line, "next step") \/ LowerContains(line, "action") THEN "next_steps"
    ELSE ""

\* line.startswith('-') or line.startswith('*') (the third marker of the
\* source is not among the characters of the replies modelled)
IsBullet(line) == StartsWith(line, "-") \/ StartsWith(line, "*")

\* the state of the loop of _parse_text_response
Scan(section, content, raised) ==
    [section |-> section, content |-> content, raised |-> raised]

\* one line of the loop; section "" is current_section = None
ScanLine(st, rawline) ==
    LET line == Strip(rawline)
        sec == DetectSection(line)
    IN  IF st.raised \/ ~Truthy(line) THEN st
        ELSE IF sec # "" THEN Scan(sec, st.content, FALSE)
        ELSE IF IsBullet(line) THEN
            IF st.section # "" /\ st.section # "important_terms" THEN
                IF st.section = "summary"
                THEN Scan(st.section, st.content, TRUE)  \* str has no append
                ELSE Scan(st.section,
                          DictSet(st.content, st.section,
                                  JList(Append(Get(st.content, st.section).l,
                                               JStr(Strip(From(line, 2)))))),
                          FALSE)
            ELSE st
        ELSE IF st.section = "summary" /\ ~Truthy(Get(st.content, "summary").s)
             THEN Scan(st.section, DictSet(st.content, "summary", JStr(line)), FALSE)
        ELSE IF st.section = "important_terms" /\ Contains(line, ":")
             THEN Scan(st.section,
                       DictSet(st.content, "important_terms",
                               DictSet(Get(st.content, "important_terms"),
                                       Strip(SubSeq(line, 1, Find(line, ":") - 1)),
                                       JStr(Strip(From(line, Find(line, ":") + 1))))),
                       FALSE)
        ELSE st

RECURSIVE ScanLines(_, _)
ScanLines(st, lines) ==
    IF Len(lines) = 0 THEN st ELSE ScanLines(ScanLine(st, Head(lines)), Tail(lines))

\* _parse_text_response: the content, or the AttributeError of a bullet line
\* met while the current section is "summary"
parse_text_response(response_text) ==
    LET st == ScanLines(Scan("", EmptyContent, FALSE), Split(response_text, "\n"))
    IN  IF st.raised THEN [raised |-> TRUE, val |-> EmptyContent]
        ELSE [raised |-> FALSE, val |-> st.content]

\* response_text[:500] + "..." if longer
FALLBACK_SUMMARY_CHARS == 500

\* _create_fallback_response
create_fallback_response(response_text) ==
    JDict(<<Item("summary",
                 JStr(IF Len(response_text) > FALLBACK_SUMMARY_CHARS
                      THEN Slice(response_text, 1, FALLBACK_SUMMARY_CHARS) \o "..."
                      ELSE response_text)),
            Item("key_points", JList(<<JStr("Unable to parse structured response")>>)),
            Item("important_terms", JDict(<<>>)),
            Item("deadlines_obligations", JList(<<>>)),
            Item("warnings",
                 JList(<<JStr("Please review the original document for important details")>>)),
            Item("next_steps",
                 JList(<<JStr("Consider consulting with a legal professional")>>))>>)

\* the outcome of _parse_ai_response: what it returns or that it raises, and
\* the tier that ended it (1 strict JSON, 2 text parse, 3 fallback)
Normalized(raised, val, tier) == [raised |-> raised, val |-> val, tier |-> tier]

\* _parse_ai_response.  An exception of _parse_text_response is caught by
\* `except Exception` when it is called in the try body, and leaves the
\* function when it is called in the `except json.JSONDecodeError` handler.
parse_ai_response(response_text) ==
    IF HasJsonMatch(response_text) THEN
        IF json_loads(JsonMatch(response_text)).ok
        THEN Normalized(FALSE,
                        validate_and_clean_content(json_loads(JsonMatch(response_text)).v),
                        1)
        ELSE Normalized(parse_text_response(response_text).raised,
                        parse_text_response(response_text).val, 2)
    ELSE IF parse_text_response(response_text).raised
         THEN Normalized(FALSE, create_fallback_response(response_text), 3)
    ELSE Normalized(FALSE, parse_text_response(response_text).val, 2)

(***************************************************************************)
(* The replies and the parsed structures the normaliser is run on          *)
(***************************************************************************)
ScenarioB ==
    "{\"summary\": \"Short.\", \"key_points\": [\"a\"], \"important_terms\": {}, "
        \o "\"deadlines_obligations\": [], \"warnings\": [], \"next_steps\": []}"

WrongTypes ==
    "{\"summary\": 5, \"key_points\": \"one\", \"important_terms\": [\"x\"], "
        \o "\"deadlines_obligations\": 0, \"warnings\": null, "
        \o "\"next_steps\": {\"a\": \"b\"}}"

BlankEntries ==
    "{\"important_terms\": {\" \": \"x\", \"a\": \" \", \"b\": \"c\"}, "
        \o "\"key_points\": [\" \", \"a \", \"\", 7]}"

ManyLines ==
    "{\n \"summary\": \"This agreement lets you rent the flat for one year at a fixed price.\","
        \o "\n \"next_steps\": [\"Sign it\"]\n}"

ReplyPrefixes == {"", "I think this document says... ", "Summary\n", "Here {x}: "}

ReplyBodies ==
    {ScenarioB, WrongTypes, BlankEntries, ManyLines,
     "{\"summary\": \" hi \"}", "{\"summary\": \"cut", "{\"summary\": }",
     "", "This contract is fine.", "Next Steps:\n- Consult a lawyer",
     "Key points:\n-\n- a \n* b", "Terms:\n: foo\nbar:\nbaz: qux",
     "Summary:\nThe plain summary.\nSecond line.", "Warnings\n- w1\nDeadlines\n- d1",
     "Next Steps:\n- Consult a lawyer\n- Take action on the risk"}

ReplySuffixes ==
    {"", "\nThanks}", "\n- item", "\n" \o Rep("x", FALLBACK_SUMMARY_CHARS)}

Replies == {p \o b \o x : p \in ReplyPrefixes, b \in ReplyBodies, x \in ReplySuffixes}

\* a field json.loads did not find
JMissing == [k |-> "missing", s |-> "", l |-> <<>>, d |-> <<>>]

SummaryValues == {JMissing, JStr(""), JStr(" s "), JNum("5"), JNull}

KeyPointsValues ==
    {JMissing, JList(<<>>), JList(<<JStr("a"), JStr(" "), JStr(" b ")>>), JStr("one"),
     JNum("0"), JList(<<JNum("1"), JNull, JList(<<JStr("x")>>)>>)}

TermsValues ==
    {JMissing, JDict(<<>>), JDict(<<Item("a", JStr("b"))>>),
     JDict(<<Item(" ", JStr("x"))>>), JDict(<<Item("a", JStr(" "))>>),
     JDict(<<Item(" a", JStr("1")), Item("a", JStr("2"))>>),
     JDict(<<Item("a", JNum("0")), Item("b", JNum("5")), Item("", JStr("c"))>>),
     JList(<<JStr("x")>>), JStr("term")}

DeadlinesValues == {JMissing, JStr("soon"), JNum("0"), JList(<<JStr("d")>>)}

WarningsValues == {JMissing, JNull, JList(<<JStr(" w")>>)}

NextStepsValues == {JMissing, JDict(<<Item("a", JStr("b"))>>), JList(<<JStr("")>>)}

\* the dict of the fields that are there, in this order
ContentOf(sm, kp, tm, dl, wn, ns) ==
    JDict(SelectSeq(<<Item("summary", sm), Item("key_points", kp),
                      Item("important_terms", tm), Item("deadlines_obligations", dl),
                      Item("warnings", wn), Item("next_steps", ns)>>,
                    LAMBDA it : it.val.k # "missing"))

Contents ==
    {ContentOf(sm, kp, tm, dl, wn, ns) :
        sm \in SummaryValues, kp \in KeyPointsValues, tm \in TermsValues,
        dl \in DeadlinesValues, wn \in WarningsValues, ns \in NextStepsValues}

(***************************************************************************)
(* State                                                                   *)
(***************************************************************************)
VARIABLES
    file_type,          \* extract_text: the declared DocumentType
    documentai_client,  \* DocumentProcessor.documentai_client is set
    vision_client,      \* DocumentProcessor.vision_client is set
    pc,                 \* extract_text: the step it is suspended before
    document_content,   \* extract_text: what _download_document returned
    calls,              \* extract_text: the strategies run so far, with their outputs
    result,             \* extract_text: what the caller gets
    n_pc,               \* normaliser run: the step it is before
    response_text,      \* _parse_ai_response: the raw reply
    normalized,         \* _parse_ai_response: its outcome
    content,            \* _validate_and_clean_content: the parsed structure
    once,               \* the pass applied to content
    twice,              \* the pass applied to its own output
    s_op,               \* AISimplifier call: simplify_document or answer_question
    s_pc,               \* AISimplifier call: the step it is suspended before
    model_response,     \* what model.generate_content gave
    parse_calls,        \* the replies _parse_ai_response was invoked on
    s_result,           \* AISimplifier call: what the caller gets
    q_req,              \* per request: where its extract_text is, and at which strategy
    q_units,            \* the work units handed to the executors
    f_op,               \* the function applied
    f_in,               \* its arguments
    f_out               \* what it returned

evars == <<file_type, documentai_client, vision_client, pc, document_content,
           calls, result>>

nvars == <<n_pc, response_text, normalized, content, once, twice>>

svars == <<s_op, s_pc, model_response, parse_calls, s_result>>

qvars == <<q_req, q_units>>

fvars == <<f_op, f_in, f_out>>

VARIABLES
    r_table,            \* the status column of the documents table, by document id
    r_batch,            \* batch_process_documents: its request, loop and lists
    r_call,             \* the process_document call the loop is in
    m_table,            \* the rows of the documents table, by document id
    m_call              \* a store_metadata or update_metadata call

rvars == <<r_table, r_batch, r_call>>

mvars == <<m_table, m_call>>

vars == <<evars, nvars, svars, qvars, fvars, rvars, mvars>>

Pending == [status |-> "pending", val |-> None]

\* no extraction is running
IdleExtract ==
    /\ file_type = "text"
    /\ documentai_client = FALSE
    /\ vision_client = FALSE
    /\ pc = "idle"
    /\ document_content = [some |-> FALSE, v |-> <<>>]
    /\ calls = <<>>
    /\ result = Pending

\* no normaliser run
IdleNormalize ==
    /\ n_pc = "idle"
    /\ response_text = ""
    /\ normalized = [raised |-> FALSE, val |-> JNull, tier |-> 0]
    /\ content = JNull
    /\ once = JNull
    /\ twice = JNull

\* no AISimplifier call
IdleSimplify ==
    /\ s_op = "none"
    /\ s_pc = "idle"
    /\ model_response = [err |-> FALSE, text |-> None]
    /\ parse_calls = <<>>
    /\ s_result = [status |-> "pending", val |-> JNull]

\* no request in flight
IdlePool ==
    /\ q_req = <<>>
    /\ q_units = {}

\* no function applied
IdleFunctions ==
    /\ f_op = "none"
    /\ f_in = <<>>
    /\ f_out = <<>>

IdleBatch ==
    /\ r_table = <<>>
    /\ r_batch = <<>>
    /\ r_call = <<>>

IdleStorage ==
    /\ m_table = <<>>
    /\ m_call = <<>>

InitExtract ==
    /\ IdleNormalize
    /\ IdleSimplify
    /\ IdlePool
    /\ IdleFunctions
    /\ IdleBatch
    /\ IdleStorage
    /\ file_type \in DocumentType
    /\ documentai_client \in BOOLEAN
    /\ vision_client \in BOOLEAN
    /\ pc = "start"
    /\ document_content = [some |-> FALSE, v |-> <<>>]
    /\ calls = <<>>
    /\ result = Pending

(***************************************************************************)
(* extract_text and the per-type cascades                                  *)
(***************************************************************************)
\* the except clause of _extract_pdf_text / _extract_image_text: return None
cascade_guard(r) == IF r.raised THEN Ret(None) ELSE r

\* the except clause of extract_text: return None
extract_text_guard(r) == IF r.raised THEN Ret(None) ELSE r

\* extract_text ends with outcome r of its try body
Finish(r) ==
    /\ result' = [status |-> IF extract_text_guard(r).raised THEN "raised"
                             ELSE "returned",
                  val |-> extract_text_guard(r).val]
    /\ pc' = "done"

\* the first strategy of the declared type
FirstStep(ft) ==
    CASE ft = "pdf" -> IF documentai_client THEN "documentai" ELSE "pdfplumber"
      [] ft \in {"doc", "docx"} -> "docx"
      [] ft = "image" -> IF vision_client THEN "vision" ELSE "tesseract"
      [] OTHER -> "done"

\* _extract_pdf_text: the strategy that follows a rejected one
PdfNext_Swapped(s) ==
    CASE s = "documentai" -> "pypdf2"
      [] s = "pypdf2" -> "pdfplumber"
      [] OTHER -> "ocr"

PdfNext(s) ==
    CASE s = "documentai" -> "pdfplumber"
      [] s = "pdfplumber" -> "pypdf2"
      [] OTHER -> "ocr"

Called(s, err, r) == [s |-> s, err |-> err, raised |-> r.raised, out |-> r.val]

\* download, then the dispatch on file_type up to the first await
DownloadDocument ==
    /\ pc = "start"
    /\ \E d \in Downloads(file_type) :
        /\ document_content' = d
        /\ IF ~(d.some /\ Len(d.v) > 0) THEN Finish(Ret(None))
           ELSE IF file_type = "text" THEN Finish(Ret(Some(Decode(d.v))))
           ELSE pc' = FirstStep(file_type) /\ UNCHANGED result
    /\ UNCHANGED <<file_type, documentai_client, vision_client, calls>>
    /\ UNCHANGED <<nvars, svars, qvars, fvars, rvars, mvars>>

\* one strategy of _extract_pdf_text has returned r
PdfStep(s, err, r) ==
    /\ calls' = Append(calls, Called(s, err, r))
    /\ IF r.raised THEN Finish(cascade_guard(r))
       ELSE IF AcceptPdf(r.val) THEN Finish(r)
       ELSE pc' = PdfNext(s) /\ UNCHANGED result
    /\ UNCHANGED <<file_type, documentai_client, vision_client, document_content>>
    /\ UNCHANGED <<nvars, svars, qvars, fvars, rvars, mvars>>

ExtractPdfWithDocumentAI ==
    /\ pc = "documentai"
    /\ PdfStep("documentai", FALSE, extract_pdf_with_documentai(document_content.v))

ExtractPdfWithPdfplumber ==
    /\ pc = "pdfplumber"
    /\ \E raw \in PdfReads :
        PdfStep("pdfplumber", raw.err, extract_pdf_with_pdfplumber(raw))

ExtractPdfWithPyPDF2 ==
    /\ pc = "pypdf2"
    /\ \E raw \in PdfReads :
        PdfStep("pypdf2", raw.err, extract_pdf_with_pypdf2(raw))

\* the last strategy: its result is returned as it is
ExtractPdfWithOcr ==
    /\ pc = "ocr"
    /\ calls' = Append(calls, Called("ocr", FALSE, extract_pdf_with_ocr))
    /\ Finish(cascade_guard(extract_pdf_with_ocr))
    /\ UNCHANGED <<file_type, documentai_client, vision_client, document_content>>
    /\ UNCHANGED <<nvars, svars, qvars, fvars, rvars, mvars>>

ExtractDocxText ==
    /\ pc = "docx"
    /\ \E raw \in DocxReads :
        /\ calls' = Append(calls, Called("docx", raw.err, extract_docx_text(raw)))
        /\ Finish(extract_docx_text(raw))
    /\ UNCHANGED <<file_type, documentai_client, vision_client, document_content>>
    /\ UNCHANGED <<nvars, svars, qvars, fvars, rvars, mvars>>

ExtractWithGoogleVision ==
    /\ pc = "vision"
    /\ \E raw \in VisionReads :
        LET r == extract_with_google_vision(raw) IN
        /\ calls' = Append(calls, Called("vision", raw.err, r))
        /\ IF r.raised THEN Finish(cascade_guard(r))
           ELSE IF AcceptVision(r.val) THEN Finish(r)
           ELSE pc' = "tesseract" /\ UNCHANGED result
    /\ UNCHANGED <<file_type, documentai_client, vision_client, document_content>>
    /\ UNCHANGED <<nvars, svars, qvars, fvars, rvars, mvars>>

ExtractWithTesseract ==
    /\ pc = "tesseract"
    /\ \E raw \in TesseractReads :
        /\ calls' = Append(calls, Called("tesseract", raw.err, extract_with_tesseract(raw)))
        /\ Finish(cascade_guard(extract_with_tesseract(raw)))
    /\ UNCHANGED <<file_type, documentai_client, vision_client, document_content>>
    /\ UNCHANGED <<nvars, svars, qvars, fvars, rvars, mvars>>

NextExtract ==
    \/ DownloadDocument
    \/ ExtractPdfWithDocumentAI
    \/ ExtractPdfWithPdfplumber
    \/ ExtractPdfWithPyPDF2
    \/ ExtractPdfWithOcr
    \/ ExtractDocxText
    \/ ExtractWithGoogleVision
    \/ ExtractWithTesseract

Spec == InitExtract /\ [][NextExtract]_vars

(***************************************************************************)
(* Properties of the extraction cascade (specification Spec)               *)
(***************************************************************************)
Returned(v) == [status |-> "returned", val |-> v]

CallNames == [i \in 1..Len(calls) |-> calls[i].s]

LastCall == calls[Len(calls)]

\* the order the specification declares for PDF
DeclaredPdfOrder == <<"pdfplumber", "pypdf2", "ocr">>

\* the PDF strategies run so far, the Document AI stub aside
PdfCalls == SelectSeq(CallNames, LAMBDA s : s # "documentai")

\* C1: for a PDF the strategies run in the declared order (pdfplumber, PyPDF2,
\* OCR), a strategy runs only after every earlier one was rejected, and an
\* accepted output ends the cascade at once and is what extract_text returns.
C1_PdfFirstAcceptedWins ==
    file_type = "pdf" =>
        /\ Len(PdfCalls) <= Len(DeclaredPdfOrder)
        /\ PdfCalls = SubSeq(DeclaredPdfOrder, 1, Len(PdfCalls))
        /\ \A i \in DOMAIN calls :
            /\ i < Len(calls) => ~AcceptPdf(calls[i].out)
            /\ AcceptPdf(calls[i].out) =>
                 /\ pc = "done"
                 /\ result = Returned(calls[i].out)

\* C1 witness: pdfplumber gave a short text, PyPDF2 an accepted one, and the
\* PyPDF2 text is the result.
C1_Witness ==
    /\ file_type = "pdf" /\ pc = "done" /\ Len(calls) >= 2
    /\ calls[Len(calls) - 1].s = "pdfplumber"
    /\ calls[Len(calls) - 1].out.some
    /\ Truthy(calls[Len(calls) - 1].out.v)
    /\ ~AcceptPdf(calls[Len(calls) - 1].out)
    /\ LastCall.s = "pypdf2"
    /\ AcceptPdf(LastCall.out)
    /\ result = Returned(LastCall.out)
    /\ result.val # calls[Len(calls) - 1].out

C3_NeverEmptyString ==
    result.status = "returned" => (~result.val.some \/ Len(result.val.v) > 0)

\* the strategy the cascade must go on to after an error in strategy s
ErrorSuccessor(s) ==
    CASE s = "pdfplumber" -> "pypdf2"
      [] s = "pypdf2" -> "ocr"
      [] s = "vision" -> "tesseract"
      [] OTHER -> "none"

\* C4: an internal error of a strategy never makes extract_text raise; the
\* cascade goes on to the next strategy of the list, and the last strategy run
\* decides the result.
C4_StrategyErrorFallsThrough ==
    /\ result.status # "raised"
    /\ pc = "done" =>
        \A i \in DOMAIN calls :
            (calls[i].err /\ ErrorSuccessor(calls[i].s) # "none") =>
                /\ i < Len(calls)
                /\ calls[i + 1].s = ErrorSuccessor(calls[i].s)
                /\ result = Returned(LastCall.out)

\* C4 witness: pdfplumber failed, PyPDF2 then gave the accepted text returned.
C4_Witness ==
    /\ file_type = "pdf" /\ pc = "done" /\ Len(calls) >= 2
    /\ calls[Len(calls) - 1].s = "pdfplumber"
    /\ calls[Len(calls) - 1].err
    /\ LastCall.s = "pypdf2"
    /\ AcceptPdf(LastCall.out)
    /\ result = Returned(LastCall.out)

\* an IMAGE extraction that got its bytes and has ended
ImageDone ==
    /\ file_type = "image"
    /\ pc = "done"
    /\ document_content.some
    /\ Len(document_content.v) > 0

\* strategy s was run
Ran(s) == \E i \in DOMAIN calls : calls[i].s = s

\* the trimmed length of what the cloud backend gave (0 for None)
TrimmedLen(out) == IF out.some THEN Len(Strip(out.v)) ELSE 0

\* what local OCR ran last and extract_text returned its output, None when it
\* failed
LocalOcrDecides ==
    /\ LastCall.s = "tesseract"
    /\ result.status = "returned"
    /\ result.val = LastCall.out
    /\ LastCall.err => result.val = None

\* C14 as stated: the cloud backend is first when configured, its text is
\* returned without local OCR when it has at least 10 trimmed characters, and
\* otherwise local OCR runs next and its failure gives None, not an exception.
C14_CloudTextOfTenReturned ==
    ImageDone =>
        /\ vision_client => calls[1].s = "vision"
        /\ ~vision_client => ~Ran("vision")
        /\ IF vision_client /\ TrimmedLen(calls[1].out) >= MIN_OCR_TEXT
           THEN /\ result = Returned(calls[1].out)
                /\ ~Ran("tesseract")
           ELSE LocalOcrDecides

\* C14 (amended): the same with the threshold the cascade applies, more than 10
\* trimmed characters; a cloud text of exactly 10 goes on to local OCR.
C14_CloudTextOverTenReturned ==
    ImageDone =>
        /\ vision_client => calls[1].s = "vision"
        /\ ~vision_client => ~Ran("vision")
        /\ IF vision_client /\ TrimmedLen(calls[1].out) > MIN_OCR_TEXT
           THEN /\ result = Returned(calls[1].out)
                /\ ~Ran("tesseract")
           ELSE LocalOcrDecides

\* the cloud backend gave exactly 10 trimmed characters, local OCR ran and
\* failed, and the caller got None
C14_Witness ==
    /\ ImageDone
    /\ vision_client
    /\ Len(calls) = 2
    /\ calls[1].s = "vision"
    /\ TrimmedLen(calls[1].out) = MIN_OCR_TEXT
    /\ calls[2].s = "tesseract"
    /\ calls[2].err
    /\ result = [status |-> "returned", val |-> None]

\* the strategies of _extract_pdf_text whose output is tested
GuardedPdf == {"documentai", "pdfplumber", "pypdf2"}

\* C24 as stated: in the PDF cascade an output is accepted exactly when its
\* trimmed length is at least 100: one of 99 is rejected and the next
\* strategy runs, one of exactly 100 is accepted and returned.
C24_HundredAccepted ==
    (file_type = "pdf" /\ pc = "done") =>
        \A i \in DOMAIN calls :
            calls[i].s \in GuardedPdf =>
                IF TrimmedLen(calls[i].out) >= MIN_PDF_TEXT
                THEN i = Len(calls) /\ result = Returned(calls[i].out)
                ELSE i < Len(calls) /\ calls[i + 1].s = PdfNext(calls[i].s)

\* C24 (amended): an output is accepted exactly when its trimmed length is
\* above 100: one of 99 or of exactly 100 is rejected and the next strategy
\* runs, one of 101 is accepted and returned.
C24_OverHundredAccepted ==
    (file_type = "pdf" /\ pc = "done") =>
        \A i \in DOMAIN calls :
            calls[i].s \in GuardedPdf =>
                IF TrimmedLen(calls[i].out) > MIN_PDF_TEXT
                THEN i = Len(calls) /\ result = Returned(calls[i].out)
                ELSE i < Len(calls) /\ calls[i + 1].s = PdfNext(calls[i].s)

\* pdfplumber gave exactly 100 trimmed characters and PyPDF2 ran after it and
\* gave 99, so the OCR stub ran last
C24_Witness ==
    /\ file_type = "pdf" /\ pc = "done"
    /\ Len(calls) = 3
    /\ calls[1].s = "pdfplumber"
    /\ TrimmedLen(calls[1].out) = MIN_PDF_TEXT
    /\ calls[2].s = "pypdf2"
    /\ TrimmedLen(calls[2].out) = MIN_PDF_TEXT - 1
    /\ calls[3].s = "ocr"

(***************************************************************************)
(* Specification SpecNormalize: _parse_ai_response run on a reply, and     *)
(* _validate_and_clean_content run on a parsed structure and again on its  *)
(* own output.                                                             *)
(***************************************************************************)
InitNormalize ==
    /\ IdleExtract
    /\ IdleSimplify
    /\ IdlePool
    /\ IdleFunctions
    /\ IdleBatch
    /\ IdleStorage
    /\ normalized = [raised |-> FALSE, val |-> JNull, tier |-> 0]
    /\ once = JNull
    /\ twice = JNull
    /\ \/ n_pc = "parse" /\ response_text \in Replies /\ content = JNull
       \/ n_pc = "validate" /\ response_text = "" /\ content \in Contents

ParseAiResponse ==
    /\ n_pc = "parse"
    /\ normalized' = parse_ai_response(response_text)
    /\ n_pc' = "parsed"
    /\ UNCHANGED <<response_text, content, once, twice>>
    /\ UNCHANGED <<evars, svars, qvars, fvars, rvars, mvars>>

ValidateAndCleanContent ==
    /\ n_pc = "validate"
    /\ once' = validate_and_clean_content(content)
    /\ n_pc' = "validated"
    /\ UNCHANGED <<response_text, normalized, content, twice>>
    /\ UNCHANGED <<evars, svars, qvars, fvars, rvars, mvars>>

ValidateAgain ==
    /\ n_pc = "validated"
    /\ twice' = validate_and_clean_content(once)
    /\ n_pc' = "revalidated"
    /\ UNCHANGED <<response_text, normalized, content, once>>
    /\ UNCHANGED <<evars, svars, qvars, fvars, rvars, mvars>>

NextNormalize ==
    \/ ParseAiResponse
    \/ ValidateAndCleanContent
    \/ ValidateAgain

SpecNormalize == InitNormalize /\ [][NextNormalize]_vars

(***************************************************************************)
(* Properties of the normaliser (specification SpecNormalize)              *)
(***************************************************************************)
IsStr(v) == v.k = "str"
IsStrList(v) == v.k = "list" /\ \A i \in DOMAIN v.l : IsStr(v.l[i])
IsStrDict(v) == v.k = "dict" /\ \A i \in DOMAIN v.d : IsStr(v.d[i].val)

\* the six fields are there, each of its container type
WellShaped(c) ==
    /\ c.k = "dict"
    /\ \A f \in {RequiredFields[i] : i \in DOMAIN RequiredFields} : Has(c, f)
    /\ IsStr(Get(c, "summary"))
    /\ \A i \in DOMAIN ListFields : IsStrList(Get(c, ListFields[i]))
    /\ IsStrDict(Get(c, "important_terms"))

\* C5: for every raw reply _parse_ai_response returns a structure with all six
\* fields, each of the right container type.
C5_AlwaysSixTypedFields ==
    n_pc = "parsed" => (~normalized.raised /\ WellShaped(normalized.val))

\* C6: the validation/repair pass applied to its own output changes nothing.
C6_ValidateIdempotent ==
    n_pc = "revalidated" => PyEq(twice, once)

\* tier 2 found nothing: no summary, no item, no term
NothingUsable(c) ==
    /\ ~Truthy(Get(c, "summary").s)
    /\ \A i \in DOMAIN ListFields : Len(Get(c, ListFields[i]).l) = 0
    /\ Len(Get(c, "important_terms").d) = 0

\* C7: a non-empty reply with no JSON object in it and nothing the text parse
\* recognises comes back as the minimal fallback (summary = the first 500
\* characters of the reply, one key point, one warning, one next step).
C7_FallbackWhenNothingUsable ==
    ( /\ n_pc = "parsed"
      /\ Truthy(response_text)
      /\ ~HasJsonMatch(response_text)
      /\ ~parse_text_response(response_text).raised
      /\ NothingUsable(parse_text_response(response_text).val) )
        => ( /\ ~normalized.raised
             /\ PyEq(normalized.val, create_fallback_response(response_text)) )

Stripped(s) == Strip(s) = s

\* every string stripped, no empty item, no empty term or definition
Cleaned(c) ==
    /\ Stripped(Get(c, "summary").s)
    /\ \A i \in DOMAIN ListFields :
        \A j \in DOMAIN Get(c, ListFields[i]).l :
            /\ Stripped(Get(c, ListFields[i]).l[j].s)
            /\ Truthy(Get(c, ListFields[i]).l[j].s)
    /\ \A j \in DOMAIN Get(c, "important_terms").d :
        /\ Stripped(Get(c, "important_terms").d[j].key)
        /\ Truthy(Get(c, "important_terms").d[j].key)
        /\ Stripped(Get(c, "important_terms").d[j].val.s)
        /\ Truthy(Get(c, "important_terms").d[j].val.s)

\* C8: a structure returned through tier 1 or tier 2 went through the
\* validation/repair pass, so it is cleaned.
C8_BothTiersCleaned ==
    (n_pc = "parsed" /\ ~normalized.raised /\ normalized.tier \in {1, 2})
        => Cleaned(normalized.val)

\* C11: for a non-empty reply _parse_ai_response raises nothing, whichever of
\* its parse steps fails.
C11_MalformedReplyNeverRaises ==
    (n_pc = "parsed" /\ Truthy(response_text)) => ~normalized.raised

\* the reply is prose, a well-formed JSON object, prose
Embeds(reply, p, b, x) ==
    /\ reply = p \o b \o x
    /\ StartsWith(b, "{")
    /\ json_loads(b).ok

\* C20: a reply that holds a well-formed JSON object, with any text before and
\* after it, comes back through tier 1 as the validated fields of that object.
C20_EmbeddedObjectParsed ==
    n_pc = "parsed" =>
        \A p \in ReplyPrefixes, b \in ReplyBodies, x \in ReplySuffixes :
            Embeds(response_text, p, b, x) =>
                /\ ~normalized.raised
                /\ normalized.tier = 1
                /\ PyEq(normalized.val, validate_and_clean_content(json_loads(b).v))

\* the bullet texts of the lines met while the section is field, in order,
\* where a line without a bullet marker that names a section switches to it
RECURSIVE BulletsOf(_, _, _)
BulletsOf(lines, section, field) ==
    IF Len(lines) = 0 THEN <<>>
    ELSE IF IsBullet(Strip(Head(lines)))
    THEN (IF section = field THEN <<JStr(Strip(From(Strip(Head(lines)), 2)))>> ELSE <<>>)
            \o BulletsOf(Tail(lines), section, field)
    ELSE BulletsOf(Tail(lines),
                   IF DetectSection(Strip(Head(lines))) # ""
                   THEN DetectSection(Strip(Head(lines))) ELSE section,
                   field)

\* C21: in the text parse every bullet line met in one of the four list
\* sections is appended to that section, marker removed and trimmed, in order
\* of appearance, whatever words it holds.
C21_BulletsAppended ==
    (n_pc = "parsed" /\ normalized.tier = 2 /\ ~normalized.raised) =>
        \A i \in DOMAIN ListFields :
            Get(normalized.val, ListFields[i]).l
                = BulletsOf(Split(response_text, "\n"), "", ListFields[i])

\* the one-element sequence of the string form of v, as the cleaning leaves it
Coerced(v) == CleanList(JList(<<JStr(PyStr(v))>>))

\* field f of the structure is there and is no sequence
NotASequence(c, f) == Has(c, f) /\ Get(c, f).k # "list"

\* C22 as stated: each of the four sequence fields that is present but not a
\* sequence becomes the one-element sequence of its string form, and an
\* important_terms that is not a mapping becomes the empty mapping.
C22_SequencesCoercedUniformly ==
    n_pc \in {"validated", "revalidated"} =>
        /\ \A i \in DOMAIN ListFields :
            NotASequence(content, ListFields[i])
                => Get(once, ListFields[i]) = Coerced(Get(content, ListFields[i]))
        /\ (Has(content, "important_terms") /\ Get(content, "important_terms").k # "dict")
                => Get(once, "important_terms") = JDict(<<>>)

\* C22 (amended): key_points is coerced whatever the value; the other three
\* are coerced when the value is truthy and become the empty sequence when it
\* is falsy (None, 0, False, ""); important_terms as stated.
C22_SequencesCoercedWhenTruthy ==
    n_pc \in {"validated", "revalidated"} =>
        /\ \A i \in DOMAIN ListFields :
            NotASequence(content, ListFields[i])
                => Get(once, ListFields[i])
                    = IF ListFields[i] = "key_points"
                         \/ PyTruthy(Get(content, ListFields[i]))
                      THEN Coerced(Get(content, ListFields[i]))
                      ELSE JList(<<>>)
        /\ (Has(content, "important_terms") /\ Get(content, "important_terms").k # "dict")
                => Get(once, "important_terms") = JDict(<<>>)

\* key_points 0 became ['0'], deadlines_obligations 0 became []
C22_Witness ==
    /\ n_pc = "validated"
    /\ Has(content, "key_points")
    /\ Get(content, "key_points") = JNum("0")
    /\ Has(content, "deadlines_obligations")
    /\ Get(content, "deadlines_obligations") = JNum("0")
    /\ Get(once, "key_points") = JList(<<JStr("0")>>)
    /\ Get(once, "deadlines_obligations") = JList(<<>>)

(***************************************************************************)
(* AISimplifier: the model call, simplify_document and answer_question     *)
(***************************************************************************)
\* what model.generate_content may do: raise, or give a response whose .text
\* is None, "" or a text
ModelResponses ==
    {[err |-> TRUE, text |-> None], [err |-> FALSE, text |-> None]}
        \cup {[err |-> FALSE, text |-> Some(t)] : t \in Replies \cup {" \n"}}

\* _generate_simplified_content: the text, or an exception (the one of the
\* call, or "Failed to generate simplified content" for a response without text)
generate_simplified_content_EmptyText(resp) ==
    IF resp.err THEN Raise
    ELSE IF resp.text.some THEN Ret(resp.text)
    ELSE Raise

generate_simplified_content(resp) ==
    IF resp.err THEN Raise
    ELSE IF resp.text.some /\ Truthy(resp.text.v) THEN Ret(resp.text)
    ELSE Raise

\* the summary bonus is for more than 50 characters
RICH_SUMMARY_CHARS == 50

\* a Python float of the score arithmetic: the double that lies `ulps` units in
\* the last place below the double nearest to tenths/10 (0.7999999999999999
\* is Float(8, 1))
Float(tenths, ulps) == [tenths |-> tenths, ulps |-> ulps]

\* `score += 0.2`, `score += 0.1` in IEEE double arithmetic, for the sums that
\* start from 0.5: 0.5 + 0.2 = 0.7, 0.5 + 0.1 = 0.6 and 0.6 + 0.1 = 0.7 are the
\* nearest doubles, 0.7 + 0.1 = 0.7999999999999999, and from there on each sum
\* stays one unit in the last place below
FloatAdd(x, tenths) ==
    Float(x.tenths + tenths, IF x.tenths + tenths >= 8 THEN 1 ELSE 0)

\* x <= y
FloatLeq(x, y) ==
    x.tenths < y.tenths \/ (x.tenths = y.tenths /\ x.ulps >= y.ulps)

\* min(x, y)
FloatMin(x, y) == IF FloatLeq(x, y) THEN x ELSE y

\* _calculate_confidence_score with a penalty where the code has a bonus
calculate_confidence_score_Penalty(c) ==
    LET s1 == IF Truthy(Get(c, "summary").s) /\ Len(Get(c, "summary").s) > RICH_SUMMARY_CHARS
              THEN FloatAdd(Float(5, 0), 2) ELSE Float(5, 0)
        s2 == IF Len(Get(c, "key_points").l) > 0 THEN FloatAdd(s1, 1) ELSE s1
        s3 == IF Len(Get(c, "important_terms").d) > 0 THEN FloatAdd(s2, 1) ELSE s2
        s4 == IF Len(Get(c, "next_steps").l) > 0 THEN FloatAdd(s3, -1) ELSE s3
    IN  FloatMin(s4, Float(10, 0))

\* _calculate_confidence_score with a bonus for warnings as well
calculate_confidence_score_Warnings(c) ==
    LET s1 == IF Truthy(Get(c, "summary").s) /\ Len(Get(c, "summary").s) > RICH_SUMMARY_CHARS
              THEN FloatAdd(Float(5, 0), 2) ELSE Float(5, 0)
        s2 == IF Len(Get(c, "key_points").l) > 0 THEN FloatAdd(s1, 1) ELSE s1
        s3 == IF Len(Get(c, "important_terms").d) > 0 THEN FloatAdd(s2, 1) ELSE s2
        s4 == IF Len(Get(c, "next_steps").l) > 0 THEN FloatAdd(s3, 1) ELSE s3
        s5 == IF Len(Get(c, "warnings").l) > 0 THEN FloatAdd(s4, 1) ELSE s4
    IN  FloatMin(s5, Float(10, 0))

\* _calculate_confidence_score: 0.5, + 0.2, + 0.1, + 0.1, + 0.1, min(score, 1.0)
\* the variable score before the clamp, with each bonus 0.2
score_EveryBonusDouble(c) ==
    LET s1 == IF Truthy(Get(c, "summary").s) /\ Len(Get(c, "summary").s) > RICH_SUMMARY_CHARS
              THEN FloatAdd(Float(5, 0), 2) ELSE Float(5, 0)
        s2 == IF Len(Get(c, "key_points").l) > 0 THEN FloatAdd(s1, 2) ELSE s1
        s3 == IF Len(Get(c, "important_terms").d) > 0 THEN FloatAdd(s2, 2) ELSE s2
    IN  IF Len(Get(c, "next_steps").l) > 0 THEN FloatAdd(s3, 2) ELSE s3

\* the variable score before the clamp: the base value and the bonuses
score(c) ==
    LET s1 == IF Truthy(Get(c, "summary").s) /\ Len(Get(c, "summary").s) > RICH_SUMMARY_CHARS
              THEN FloatAdd(Float(5, 0), 2) ELSE Float(5, 0)
        s2 == IF Len(Get(c, "key_points").l) > 0 THEN FloatAdd(s1, 1) ELSE s1
        s3 == IF Len(Get(c, "important_terms").d) > 0 THEN FloatAdd(s2, 1) ELSE s2
    IN  IF Len(Get(c, "next_steps").l) > 0 THEN FloatAdd(s3, 1) ELSE s3

calculate_confidence_score(c) == FloatMin(score(c), Float(10, 0))

\* len(re.split(r'[.!?]+', text)): one more than the runs of sentence marks
Marks == {".", "!", "?"}
IsMark(c) == c \in Marks
SentenceCount(text) ==
    1 + Cardinality({i \in 1..Len(text) :
                        IsMark(At(text, i)) /\ (i = 1 \/ ~IsMark(At(text, i - 1)))})

\* len(text.split()), and the characters the words hold
WordCount(text) ==
    Cardinality({i \in 1..Len(text) :
                    ~IsSpace(At(text, i)) /\ (i = 1 \/ IsSpace(At(text, i - 1)))})
WordChars(text) == Cardinality({i \in 1..Len(text) : ~IsSpace(At(text, i))})

\* _estimate_reading_level: the averages compared without dividing
estimate_reading_level(text) ==
    LET w == WordCount(text)
        n == SentenceCount(text)
        ch == WordChars(text)
    IN  IF w = 0 THEN "unknown"
        ELSE IF w < 10 * n /\ ch < 5 * w THEN "elementary"
        ELSE IF w < 15 * n /\ ch < 6 * w THEN "intermediate"
        ELSE IF w < 20 * n /\ ch < 7 * w THEN "high_school"
        ELSE "college"

\* what simplify_document returns: the structure, with the metadata it adds
Simplified(c) ==
    [content |-> c,
     confidence_score |-> calculate_confidence_score(c),
     reading_level |-> estimate_reading_level(Get(c, "summary").s)]

\* what answer_question returns
Answer(text, confidence) == [answer |-> text, confidence_score |-> confidence]

\* the answer of the except clause of answer_question, confidence 0.3
ApologyAnswer ==
    Answer("I'm sorry, I couldn't find the answer in the document.", Float(3, 0))

\* answer_question after the model call: the stripped reply with confidence
\* 0.7 (0.3 when it is empty); an exception of the call gives the apology
answer_question_Propagate(g) ==
    IF g.raised THEN [status |-> "raised", val |-> ApologyAnswer]
    ELSE [status |-> "returned",
          val |-> Answer(Strip(g.val.v), IF Len(Strip(g.val.v)) > 0 THEN Float(7, 0)
                        ELSE Float(3, 0))]

answer_question(g) ==
    IF g.raised THEN [status |-> "returned", val |-> ApologyAnswer]
    ELSE [status |-> "returned",
          val |-> Answer(Strip(g.val.v), IF Len(Strip(g.val.v)) > 0 THEN Float(7, 0)
                        ELSE Float(3, 0))]

\* simplify_document after the model call: any exception is logged and raised again
simplify_document(g) ==
    IF g.raised THEN [status |-> "raised", val |-> JNull]
    ELSE IF parse_ai_response(g.val.v).raised THEN [status |-> "raised", val |-> JNull]
    ELSE [status |-> "returned", val |-> Simplified(parse_ai_response(g.val.v).val)]

InitSimplify ==
    /\ IdleExtract
    /\ IdleNormalize
    /\ IdlePool
    /\ IdleFunctions
    /\ IdleBatch
    /\ IdleStorage
    /\ s_op \in {"simplify", "answer"}
    /\ s_pc = "start"
    /\ model_response = [err |-> FALSE, text |-> None]
    /\ parse_calls = <<>>
    /\ s_result = [status |-> "pending", val |-> JNull]

\* preprocess the text and build the prompt, up to the await of the model call
BuildPrompt ==
    /\ s_pc = "start"
    /\ s_pc' = "generate"
    /\ UNCHANGED <<s_op, model_response, parse_calls, s_result>>
    /\ UNCHANGED <<evars, nvars, qvars, fvars, rvars, mvars>>

\* simplify_document from the model call on
SimplifyDocument ==
    /\ s_op = "simplify"
    /\ s_pc = "generate"
    /\ \E resp \in ModelResponses :
        /\ model_response' = resp
        /\ parse_calls' = IF generate_simplified_content(resp).raised THEN parse_calls
                          ELSE Append(parse_calls, generate_simplified_content(resp).val.v)
        /\ s_result' = simplify_document(generate_simplified_content(resp))
    /\ s_pc' = "done"
    /\ UNCHANGED s_op
    /\ UNCHANGED <<evars, nvars, qvars, fvars, rvars, mvars>>

\* answer_question from the model call on
AnswerQuestion ==
    /\ s_op = "answer"
    /\ s_pc = "generate"
    /\ \E resp \in ModelResponses :
        /\ model_response' = resp
        /\ s_result' = answer_question(generate_simplified_content(resp))
    /\ s_pc' = "done"
    /\ UNCHANGED <<s_op, parse_calls>>
    /\ UNCHANGED <<evars, nvars, qvars, fvars, rvars, mvars>>

NextSimplify ==
    \/ BuildPrompt
    \/ SimplifyDocument
    \/ AnswerQuestion

SpecSimplify == InitSimplify /\ [][NextSimplify]_vars

(***************************************************************************)
(* Properties of the model call (specification SpecSimplify)               *)
(***************************************************************************)
\* the model gave no text: the call failed, or its response has none
NoModelText ==
    model_response.err \/ ~model_response.text.some \/ model_response.text.v = ""

\* C9: when the model call returns no text simplify_document ends with an
\* error for its caller and _parse_ai_response is not invoked.
C9_NoTextNoNormalizer ==
    (s_op = "simplify" /\ s_pc = "done" /\ NoModelText) =>
        /\ s_result.status = "raised"
        /\ parse_calls = <<>>

\* C9 witness: the response carried the empty string and simplify_document raised.
C9_Witness ==
    /\ s_op = "simplify" /\ s_pc = "done"
    /\ ~model_response.err
    /\ model_response.text = Some("")
    /\ s_result.status = "raised"

UpperOf ==
    [a |-> "A", b |-> "B", c |-> "C", d |-> "D", e |-> "E", f |-> "F", g |-> "G",
     h |-> "H", i |-> "I", j |-> "J", k |-> "K", l |-> "L", m |-> "M", n |-> "N",
     o |-> "O", p |-> "P", q |-> "Q", r |-> "R", s |-> "S", t |-> "T", u |-> "U",
     v |-> "V", w |-> "W", x |-> "X", y |-> "Y", z |-> "Z"]

IsLetter(c) == c \in DOMAIN UpperOf \/ c \in DOMAIN LowerOf

\* s.upper()
RECURSIVE Upper(_)
Upper(s) ==
    IF Len(s) = 0 THEN ""
    ELSE (IF At(s, 1) \in DOMAIN UpperOf THEN UpperOf[At(s, 1)] ELSE At(s, 1))
            \o Upper(From(s, 2))

\* s.replace(old, new) for a one-character old
RECURSIVE Replace(_, _, _)
Replace(s, old, new) ==
    IF Len(s) = 0 THEN ""
    ELSE (IF At(s, 1) = old THEN new ELSE At(s, 1)) \o Replace(From(s, 2), old, new)

\* s.title(): a letter after a character that is no letter in upper case, the
\* other letters in lower case; prev is the character before s
RECURSIVE TitleAfter(_, _)
TitleAfter(prev, s) ==
    IF Len(s) = 0 THEN ""
    ELSE (IF IsLetter(prev) THEN Lower(At(s, 1)) ELSE Upper(At(s, 1)))
            \o TitleAfter(At(s, 1), From(s, 2))

Title(s) == TitleAfter("", s)

\* settings.SIMPLIFICATION_PROMPT
SIMPLIFICATION_PROMPT ==
    "\n"
    \o "    You are a legal expert and communication specialist. Your task is to simplify complex legal documents into clear, easy-to-understand language for the general public.\n"
    \o "    \n"
    \o "    Please analyze the following legal document and provide:\n"
    \o "    1. A simple, plain-language summary of the main points\n"
    \o "    2. Key terms explained in everyday language\n"
    \o "    3. Important deadlines, obligations, or rights\n"
    \o "    4. Any warnings or critical information\n"
    \o "    5. Suggested next steps for the reader\n"
    \o "    \n"
    \o "    Maintain legal accuracy while making the content accessible to non-lawyers. Use bullet points, headings, and clear formatting.\n"
    \o "    \n"
    \o "    Document to simplify:\n"
    \o "    "

\* level_instructions of _create_simplification_prompt
level_instructions ==
    [basic |->
        "\n"
        \o "            Provide a very simple, high-level summary suitable for someone with no legal background.\n"
        \o "            Focus only on the most important points and use everyday language.\n"
        \o "            Keep explanations brief and avoid legal terminology.\n"
        \o "            ",
     standard |->
        "\n"
        \o "            Provide a comprehensive but accessible explanation suitable for the general public.\n"
        \o "            Explain key legal concepts in plain language while maintaining accuracy.\n"
        \o "            Include important details and context.\n"
        \o "            ",
     detailed |->
        "\n"
        \o "            Provide a thorough analysis with detailed explanations of legal concepts.\n"
        \o "            Include specific clauses, terms, and their implications.\n"
        \o "            Suitable for someone who wants to understand the document in depth.\n"
        \o "            "]

\* audience_instructions of _create_simplification_prompt
audience_instructions ==
    [general_public |->
        "Use everyday language that anyone can understand. Avoid jargon and explain all legal terms.",
     business_owners |->
        "Focus on business implications, risks, and opportunities. Use business-friendly language.",
     individuals |->
        "Focus on personal rights, obligations, and practical implications for individuals.",
     students |->
        "Provide educational context and explain legal concepts with examples."]


\* the text of the f-string of _create_simplification_prompt around its six
\* fields
PromptTemplate ==
    <<"\n"
         \o "        ",
      "\n"
         \o "        \n"
         \o "        SIMPLIFICATION LEVEL: ",
      "\n"
         \o "        ",
      "\n"
         \o "        \n"
         \o "        TARGET AUDIENCE: ",
      "\n"
         \o "        ",
      "\n"
         \o "        \n"
         \o "        Please structure your response as a JSON object with the following fields:\n"
         \o "        {\n"
         \o "            \"summary\": \"A clear, concise summary of the document's main purpose and key points\",\n"
         \o "            \"key_points\": [\"List of the most important points in bullet format\"],\n"
         \o "            \"important_terms\": {\"term\": \"definition\", \"term2\": \"definition2\"},\n"
         \o "            \"deadlines_obligations\": [\"List of any deadlines, obligations, or time-sensitive items\"],\n"
         \o "            \"warnings\": [\"List of warnings, risks, or critical information\"],\n"
         \o "            \"next_steps\": [\"List of recommended next steps for the reader\"]\n"
         \o "        }\n"
         \o "        \n"
         \o "        DOCUMENT TO SIMPLIFY:\n"
         \o "        ",
      "\n"
         \o "        ">>

\* d[key]: KeyError for a key that is not there
Subscript(d, key, default) == IF key \in DOMAIN d THEN Ret(d[key]) ELSE Raise

\* d.get(key, default)
DictGet(d, key, default) == IF key \in DOMAIN d THEN Ret(d[key]) ELSE Ret(default)

\* _create_simplification_prompt: the prompt, or an exception of a lookup
create_simplification_prompt(text, simplification_level, target_audience) ==
    LET level == DictGet(level_instructions, simplification_level,
                         level_instructions["standard"])
        audience == DictGet(audience_instructions, target_audience,
                            audience_instructions["general_public"])
    IN  IF level.raised \/ audience.raised THEN Raise
        ELSE Ret(PromptTemplate[1] \o SIMPLIFICATION_PROMPT
                 \o PromptTemplate[2] \o Upper(simplification_level)
                 \o PromptTemplate[3] \o level.val
                 \o PromptTemplate[4] \o Title(Replace(target_audience, "_", " "))
                 \o PromptTemplate[5] \o audience.val
                 \o PromptTemplate[6] \o text
                 \o PromptTemplate[7])

(***************************************************************************)
(* _preprocess_text                                                        *)
(***************************************************************************)
\* settings.MAX_TOKENS
MAX_TOKENS == 4000

\* max_chars = settings.MAX_TOKENS * 4
max_chars == MAX_TOKENS * 4

\* the first position of s whose character is one of chars, 0 when there is none
FirstOf(s, chars) ==
    LET S == {i \in 1..Len(s) : At(s, i) \in chars}
    IN  IF S = {} THEN 0 ELSE Min(S)

\* re.sub(r'\s+', ' ', text)
RECURSIVE CollapseWhitespace(_)
CollapseWhitespace(s) ==
    LET i == FirstOf(s, Whitespace)
    IN  IF i = 0 THEN s
        ELSE SubSeq(s, 1, i - 1) \o Sp \o CollapseWhitespace(LStrip(From(s, i)))

\* re.sub(r'Page \d+ of \d+', '', text)
RECURSIVE RemovePageNumbers(_)
RemovePageNumbers(s) ==
    LET i == Find(s, "Page ")
        d1 == SkipDigits(s, i + 5)
        d2 == SkipDigits(s, d1 + 4)
    IN  IF i = 0 THEN s
        ELSE IF d1 > i + 5 /\ Slice(s, d1, d1 + 3) = " of " /\ d2 > d1 + 4
        THEN SubSeq(s, 1, i - 1) \o RemovePageNumbers(From(s, d2))
        ELSE SubSeq(s, 1, i) \o RemovePageNumbers(From(s, i + 1))

\* re.sub(r'^\d+\s*$', '', text, flags=re.MULTILINE) on a text without line
\* breaks: a text that is a number and whitespace becomes empty
RemoveLoneNumber(s) ==
    IF Len(RStrip(s)) > 0 /\ \A i \in 1..Len(RStrip(s)) : At(s, i) \in Digits
    THEN "" ELSE s

\* re.sub(r'\[.*?\]', '', text) and re.sub(r'\(.*?\)', '', text): from an
\* opening character to the first closing one after it
RECURSIVE RemoveSpans(_, _, _)
RemoveSpans(s, open, close) ==
    LET i == FirstOf(s, {open})
        j == FirstOf(From(s, i + 1), {close})
    IN  IF i = 0 \/ j = 0 THEN s
        ELSE SubSeq(s, 1, i - 1) \o RemoveSpans(From(s, i + j + 1), open, close)

\* the text after the substitutions of _preprocess_text
Substitutions(text) ==
    RemoveSpans(
        RemoveSpans(RemoveLoneNumber(RemovePageNumbers(CollapseWhitespace(text))),
                    "[", "]"),
        "(", ")")

\* _preprocess_text that cuts without a marker
preprocess_text_NoMarker(text) ==
    LET cleaned == Substitutions(text)
    IN  Strip(IF Len(cleaned) > max_chars THEN Slice(cleaned, 1, max_chars)
              ELSE cleaned)

\* _preprocess_text that returns the text untrimmed
preprocess_text_NoStrip(text) ==
    LET cleaned == Substitutions(text)
    IN  IF Len(cleaned) > max_chars THEN Slice(cleaned, 1, max_chars) \o "..."
        ELSE cleaned

\* _preprocess_text
preprocess_text(text) ==
    LET cleaned == Substitutions(text)
    IN  Strip(IF Len(cleaned) > max_chars THEN Slice(cleaned, 1, max_chars) \o "..."
              ELSE cleaned)

(***************************************************************************)
(* Specification SpecPool: concurrent process_document requests, each with *)
(* the DocumentProcessor get_document_processor makes for it, and the work *)
(* units their cascades hand to run_in_executor.                           *)
(***************************************************************************)
\* ThreadPoolExecutor(max_workers=4)
POOL_SIZE == 4
\* requests in flight at once
MaxRequests == 5

Requests == 1..MaxRequests

\* the requests are numbered as they arrive; they are for a PDF and an IMAGE
\* in turn
RequestType(r) == IF r % 2 = 1 THEN "pdf" ELSE "image"

\* the strategies of a type that go through run_in_executor, in the order of
\* the cascade, where Vision is set up and Document AI is not (the OCR stub
\* of the PDF cascade runs inline, on the event loop)
ExecutorChain(ft) ==
    IF ft = "pdf" THEN <<"pdfplumber", "pypdf2">> ELSE <<"vision", "tesseract">>

\* the executor a request's units go to: the one of its own DocumentProcessor,
\* made for the request by get_document_processor
ExecutorOf(r) == r

\* a unit of work: strategy k of request req, its state in the executor and,
\* once done, whether the cascade accepts its text
Unit(req, k, st, ok) == [req |-> req, k |-> k, st |-> st, ok |-> ok]

\* the units a worker thread of executor e is running
Running(e) == {u \in q_units : ExecutorOf(u.req) = e /\ u.st = "running"}

\* what the acceptance test of the cascade may say of a result; the output of
\* local OCR is returned as it is
Accepts(ft, k) == IF ft = "image" /\ k = 2 THEN {TRUE} ELSE BOOLEAN

\* the unit extract_text of request r is at
CurrentUnit(r) == CHOOSE u \in q_units : u.req = r /\ u.k = q_req[r].k

\* `await run_in_executor(...)`: the coroutine goes on when the unit is done
Awaited_FireAndForget(r) == TRUE

Awaited(r) == CurrentUnit(r).st = "done"

InitPool ==
    /\ IdleExtract
    /\ IdleNormalize
    /\ IdleSimplify
    /\ IdleFunctions
    /\ IdleBatch
    /\ IdleStorage
    /\ q_req = [r \in Requests |-> [pc |-> "idle", k |-> 0]]
    /\ q_units = {}

\* process_document up to the first await on the executor: the first strategy
\* of the type is submitted
ProcessDocument ==
    /\ \E r \in Requests :
        /\ q_req[r].pc = "idle"
        /\ IF r = 1 THEN TRUE ELSE q_req[r - 1].pc # "idle"
        /\ q_req' = [q_req EXCEPT ![r] = [pc |-> "await", k |-> 1]]
        /\ q_units' = q_units \cup {Unit(r, 1, "queued", FALSE)}
    /\ UNCHANGED <<evars, nvars, svars, fvars, rvars, mvars>>

\* a free worker thread of the unit's executor takes it
WorkerStart ==
    /\ \E u \in q_units :
        /\ u.st = "queued"
        /\ Cardinality(Running(ExecutorOf(u.req))) < POOL_SIZE
        /\ q_units' = (q_units \ {u}) \cup {Unit(u.req, u.k, "running", FALSE)}
    /\ UNCHANGED q_req
    /\ UNCHANGED <<evars, nvars, svars, fvars, rvars, mvars>>

\* the worker thread returns from _extract
WorkerFinish ==
    /\ \E u \in q_units :
        /\ u.st = "running"
        /\ \E ok \in Accepts(RequestType(u.req), u.k) :
            q_units' = (q_units \ {u}) \cup {Unit(u.req, u.k, "done", ok)}
    /\ UNCHANGED q_req
    /\ UNCHANGED <<evars, nvars, svars, fvars, rvars, mvars>>

\* the cascade goes on after its await: it returns the accepted text, or
\* submits the next strategy, or ends after the last one; the units of a
\* request that has ended are forgotten
Resume ==
    /\ \E r \in Requests :
        /\ q_req[r].pc = "await"
        /\ Awaited(r)
        /\ IF CurrentUnit(r).ok \/ q_req[r].k = Len(ExecutorChain(RequestType(r)))
           THEN /\ q_req' = [q_req EXCEPT ![r].pc = "done"]
                /\ q_units' = {u \in q_units : u.req # r}
           ELSE /\ q_req' = [q_req EXCEPT ![r].k = @ + 1]
                /\ q_units' = q_units \cup {Unit(r, q_req[r].k + 1, "queued", FALSE)}
    /\ UNCHANGED <<evars, nvars, svars, fvars, rvars, mvars>>

NextPool ==
    \/ ProcessDocument
    \/ WorkerStart
    \/ WorkerFinish
    \/ Resume

SpecPool == InitPool /\ [][NextPool]_vars

(***************************************************************************)
(* Properties of the worker pools (specification SpecPool)                 *)
(***************************************************************************)
\* the units of request r that are submitted or running
Active(r) == {u \in q_units : u.req = r /\ u.st # "done"}

\* C12: within one document at most one strategy is submitted or running, and
\* strategy k+1 is there only after strategy k is done and was rejected.
C12_StrategiesNeverConcurrent ==
    /\ \A r \in Requests : Cardinality(Active(r)) <= 1
    /\ \A u \in q_units :
        u.k > 1 => Unit(u.req, u.k - 1, "done", FALSE) \in q_units

\* the second strategy of a request runs, after the first was rejected, while
\* a strategy of another request runs
C12_Witness ==
    \E u, v \in q_units :
        /\ u.req # v.req
        /\ u.k = 2
        /\ u.st = "running"
        /\ v.st = "running"
        /\ Unit(u.req, 1, "done", FALSE) \in q_units

\* C13: over all requests at most 4 extraction/OCR units execute at a time.
C13_AtMostFourExecuting ==
    Cardinality({u \in q_units : u.st = "running"}) <= POOL_SIZE


(***************************************************************************)
(* Specification SpecFunctions: _calculate_confidence_score,               *)
(* _estimate_reading_level, _create_simplification_prompt and              *)
(* _preprocess_text, each applied to its arguments.                        *)
(***************************************************************************)
NotCalled == [done |-> FALSE, val |-> <<>>]
Returns(v) == [done |-> TRUE, val |-> v]

\* the structures _calculate_confidence_score is given: what
\* _parse_ai_response returns, six fields of the right types
ScoreContents ==
    {ContentOf(JStr(sm), JList(kp), JDict(tm), JList(dl), JList(wn), JList(ns)) :
        sm \in {"", Rep("s", RICH_SUMMARY_CHARS), Rep("s", RICH_SUMMARY_CHARS + 1)},
        kp \in {<<>>, <<JStr("")>>, <<JStr("a")>>},
        tm \in {<<>>, <<Item("a", JStr("b"))>>},
        dl \in {<<>>, <<JStr("d")>>},
        wn \in {<<>>, <<JStr("w")>>},
        ns \in {<<>>, <<JStr("n")>>}}

CalculateConfidenceScore ==
    /\ f_op = "calculate_confidence_score"
    /\ ~f_out.done
    /\ f_out' = Returns(calculate_confidence_score(f_in))
    /\ UNCHANGED <<f_op, f_in>>
    /\ UNCHANGED <<evars, nvars, svars, qvars, rvars, mvars>>


\* sentences of a summary
MaxSentences == 2

\* n words of c letters each, one space between
Words(c, letters, n) ==
    IF n = 0 THEN "" ELSE Rep(Rep(c, letters) \o Sp, n - 1) \o Rep(c, letters)

\* n sentences of the same shape, ". " between them
RECURSIVE Sentences(_, _)
Sentences(sentence, n) ==
    IF n = 1 THEN sentence ELSE sentence \o ". " \o Sentences(sentence, n - 1)

\* the summaries _estimate_reading_level is given: sentences of 9 to 20 words
\* of 4 to 7 letters, with and without the full stop at the end, and some
\* short ones
ReadingTexts ==
    {"", Sp, "?!", "One. Two! Three?", "Hello world"}
        \cup {Sentences(Words("a", l, w), n) \o end :
                l \in 4..7, w \in {9, 10, 14, 15, 19, 20},
                n \in 1..MaxSentences, end \in {"", "."}}

EstimateReadingLevel ==
    /\ f_op = "estimate_reading_level"
    /\ ~f_out.done
    /\ f_out' = Returns(estimate_reading_level(f_in))
    /\ UNCHANGED <<f_op, f_in>>
    /\ UNCHANGED <<evars, nvars, svars, qvars, rvars, mvars>>


\* the levels and audiences a request may name: the known ones and others
Levels == {"basic", "standard", "detailed", "", "expert", "BASIC"}

Audiences ==
    {"general_public", "business_owners", "individuals", "students", "", "lawyers",
     "General_Public"}

PromptArguments ==
    {<<text, level, audience>> :
        text \in {"", "Doc."}, level \in Levels, audience \in Audiences}

CreateSimplificationPrompt ==
    /\ f_op = "create_simplification_prompt"
    /\ ~f_out.done
    /\ f_out' = Returns(create_simplification_prompt(f_in[1], f_in[2], f_in[3]))
    /\ UNCHANGED <<f_op, f_in>>
    /\ UNCHANGED <<evars, nvars, svars, qvars, rvars, mvars>>

\* the document texts _preprocess_text is given: short ones for the
\* substitutions, and ones around max_chars with whitespace, brackets and line
\* breaks at either end
ShortTexts ==
    {"", Sp, "a\n\n b\t", "Page 12 of 30", "x Page 1 of 2 y Page 3 of", "42 ", "7",
     "[ref] a (b) c", "a [b", "  lead", "(a [b) c]", "Pages 1 of 2 (see [3])...",
     "12 Page 1 of 2 "}

LongTexts ==
    {Rep("a", max_chars), Rep("a", max_chars + 1),
     Sp \o Rep("a", max_chars - 1), Sp \o Rep("a", max_chars),
     Rep("a", max_chars) \o Sp,
     Rep("a", max_chars - 1) \o " x",
     Rep("a", max_chars) \o "[note]",
     "[x] " \o Rep("a", max_chars),
     "(" \o Rep("a", max_chars + 5) \o ")",
     "a\n\n" \o Rep("b", max_chars - 1),
     Rep("a", max_chars + 1) \o "\n"}

PreprocessTexts == ShortTexts \cup LongTexts

PreprocessText ==
    /\ f_op = "preprocess_text"
    /\ ~f_out.done
    /\ f_out' = Returns(preprocess_text(f_in))
    /\ UNCHANGED <<f_op, f_in>>
    /\ UNCHANGED <<evars, nvars, svars, qvars, rvars, mvars>>

\* the bytes of a well-formed text, one byte for each of its characters
BytesOf(s) == [i \in 1..Len(s) |-> At(s, i)]

\* scenario A: plain-text documents of SCENARIO_A_CHARS characters
SCENARIO_A_CHARS == 100
PadTo(s, n) == s \o Rep("x", n - Len(s))
ScenarioATexts ==
    {Rep("abcd ", 19) \o "abcde",
     PadTo("This  is\n\na\tplain \n text ", SCENARIO_A_CHARS),
     PadTo(" lead ", SCENARIO_A_CHARS),
     Rep("x", SCENARIO_A_CHARS - 2) \o " \n",
     PadTo("see (note 1) and [ref 2] ", SCENARIO_A_CHARS),
     PadTo("Page 1 of 2 ", SCENARIO_A_CHARS),
     PadTo("a ) b ( c ] d [ ", SCENARIO_A_CHARS),
     Rep("7", SCENARIO_A_CHARS)}
ScenarioADocuments == {BytesOf(t) : t \in ScenarioATexts}

\* the TEXT branch of extract_text on the stored bytes, then _preprocess_text
\* on what it returned, as process_document and simplify_document chain them
ExtractAndPreprocess ==
    /\ f_op = "extract_and_preprocess"
    /\ ~f_out.done
    /\ f_out' = Returns([extracted |-> Decode(f_in),
                         cleaned_text |-> preprocess_text(Decode(f_in))])
    /\ UNCHANGED <<f_op, f_in>>
    /\ UNCHANGED <<evars, nvars, svars, qvars, rvars, mvars>>

InitFunctions ==
    /\ IdleExtract
    /\ IdleNormalize
    /\ IdleSimplify
    /\ IdlePool
    /\ IdleBatch
    /\ IdleStorage
    /\ f_out = NotCalled
    /\ \/ f_op = "calculate_confidence_score" /\ f_in \in ScoreContents
       \/ f_op = "estimate_reading_level" /\ f_in \in ReadingTexts
       \/ f_op = "create_simplification_prompt" /\ f_in \in PromptArguments
       \/ f_op = "preprocess_text" /\ f_in \in PreprocessTexts
       \/ f_op = "extract_and_preprocess" /\ f_in \in ScenarioADocuments

NextFunctions ==
    \/ CalculateConfidenceScore
    \/ EstimateReadingLevel
    \/ CreateSimplificationPrompt
    \/ PreprocessText
    \/ ExtractAndPreprocess

SpecFunctions == InitFunctions /\ [][NextFunctions]_vars


(***************************************************************************)
(* Properties of the scoring, reading-level, prompt and preprocessing      *)
(* functions (specification SpecFunctions)                                 *)
(***************************************************************************)
Applied(op) == f_op = op /\ f_out.done

\* the richness conditions a structure satisfies
RichConditions(c) ==
    {f \in {"key_points", "next_steps"} : Len(Get(c, f).l) > 0}
        \cup (IF Len(Get(c, "important_terms").d) > 0 THEN {"important_terms"} ELSE {})
        \cup (IF Len(Get(c, "summary").s) > RICH_SUMMARY_CHARS THEN {"summary"} ELSE {})

\* C15: the confidence score is within [0, 1], and a structure that satisfies
\* more of the richness conditions never scores lower.
C15_ScoreBoundedMonotone ==
    Applied("calculate_confidence_score") =>
        /\ FloatLeq(Float(0, 0), f_out.val)
        /\ FloatLeq(f_out.val, Float(10, 0))
        /\ \A c \in ScoreContents :
            RichConditions(f_in) \subseteq RichConditions(c)
                => FloatLeq(f_out.val, calculate_confidence_score(c))

\* all four conditions hold and the score is 0.9999999999999999
C15_Witness ==
    /\ Applied("calculate_confidence_score")
    /\ RichConditions(f_in) = {"summary", "key_points", "important_terms", "next_steps"}
    /\ f_out.val = Float(10, 1)

\* 0.5, 0.2 for the summary and 0.1 for each of the three, in tenths, at most 1.0
DecimalScore(c) ==
    LET sum == 5 + (IF "summary" \in RichConditions(c) THEN 2 ELSE 0)
                 + Cardinality(RichConditions(c) \ {"summary"})
    IN  IF sum > 10 THEN 10 ELSE sum

\* a summary of at most 50 characters, one key point and nothing else
OneKeyPointOnly(c) ==
    /\ Len(Get(c, "summary").s) <= RICH_SUMMARY_CHARS
    /\ Len(Get(c, "key_points").l) = 1
    /\ Len(Get(c, "important_terms").d) = 0
    /\ \A f \in {"deadlines_obligations", "warnings", "next_steps"} :
        Len(Get(c, f).l) = 0

\* C16: the score is 0.5, plus 0.2 for a summary over 50 characters, plus 0.1
\* for each of key_points, important_terms and next_steps that is non-empty,
\* at most 1.0 (the float sum, within one unit in the last place of that
\* decimal), whatever deadlines_obligations and warnings hold; a short summary
\* with one key point and nothing else scores 0.6.
C16_ScoreFormula ==
    Applied("calculate_confidence_score") =>
        /\ f_out.val.tenths = DecimalScore(f_in)
        /\ f_out.val.ulps \in {0, 1}
        /\ OneKeyPointOnly(f_in) => f_out.val = Float(6, 0)

C16_Witness ==
    /\ Applied("calculate_confidence_score")
    /\ OneKeyPointOnly(f_in)
    /\ Len(Get(f_in, "summary").s) = RICH_SUMMARY_CHARS
    /\ f_out.val = Float(6, 0)

\* the sentences of a text: the pieces between runs of '.', '!' and '?' that
\* hold something
RECURSIVE SentencesDelimited(_)
SentencesDelimited(text) ==
    LET i == FirstOf(text, Marks)
    IN  IF i = 0 THEN (IF Truthy(Strip(text)) THEN 1 ELSE 0)
        ELSE (IF Truthy(Strip(SubSeq(text, 1, i - 1))) THEN 1 ELSE 0)
                + SentencesDelimited(From(text, i + 1))

\* the ascending thresholds on w words, n sentences and ch characters
LevelOf(w, n, ch) ==
    IF w < 10 * n /\ ch < 5 * w THEN "elementary"
    ELSE IF w < 15 * n /\ ch < 6 * w THEN "intermediate"
    ELSE IF w < 20 * n /\ ch < 7 * w THEN "high_school"
    ELSE "college"

\* C17: the reading level is the one the thresholds give for the words per
\* sentence and the characters per word of the summary; 9 and 4 is
\* elementary, 19 and 6 is high_school.
C17_ReadingLevelByAverages ==
    (Applied("estimate_reading_level") /\ SentencesDelimited(f_in) > 0) =>
        f_out.val = LevelOf(WordCount(f_in), SentencesDelimited(f_in), WordChars(f_in))

\* the four conditions that earn a bonus
AllRich == {"summary", "key_points", "important_terms", "next_steps"}

\* C25 as stated: the sum of the base value and the bonuses is at most 0.9
\* for every structure, so the score 1.0 is never produced.
C25_SumAtMostNineTenths ==
    Applied("calculate_confidence_score") =>
        /\ FloatLeq(score(f_in), Float(9, 0))
        /\ f_out.val # Float(10, 0)

\* C25 (amended): the sum is at most 1.0 and the clamp never lowers it; it is
\* at most 0.9 unless all four conditions hold, and then it is the float sum
\* of 0.5 + 0.2 + 0.1 + 0.1 + 0.1, one unit in the last place below 1.0.
C25_SumAtMostOne ==
    Applied("calculate_confidence_score") =>
        /\ FloatLeq(score(f_in), Float(10, 0))
        /\ f_out.val = score(f_in)
        /\ IF RichConditions(f_in) = AllRich
           THEN f_out.val = Float(10, 1)
           ELSE FloatLeq(score(f_in), Float(9, 0))

\* every bonus is earned, nothing else is there, and the sum is above 0.9
C25_Witness ==
    /\ Applied("calculate_confidence_score")
    /\ RichConditions(f_in) = AllRich
    /\ Len(Get(f_in, "warnings").l) = 0
    /\ Len(Get(f_in, "deadlines_obligations").l) = 0
    /\ ~FloatLeq(f_out.val, Float(9, 0))

\* C23: the reading level is 'unknown' exactly when the summary holds no
\* sentence (it is empty, blank, or sentence punctuation only), and one of
\* elementary, intermediate, high_school, college otherwise.
C23_UnknownIffNothingToMeasure ==
    Applied("estimate_reading_level") =>
        IF SentencesDelimited(f_in) = 0
        THEN f_out.val = "unknown"
        ELSE f_out.val \in {"elementary", "intermediate", "high_school", "college"}

\* the instruction blocks other than b
OtherBlocks(d, b) == {d[k] : k \in DOMAIN d} \ {b}

\* the block the claim names for a key: its own, or the one of the default
BlockFor(d, key, default) == IF key \in DOMAIN d THEN d[key] ELSE d[default]

\* C18: for every level and audience a prompt is returned; it holds the block
\* of the level, 'standard' for an unknown one, and the block of the
\* audience, 'general_public' for an unknown one, and no other block.
C18_PromptAlwaysBuilt ==
    Applied("create_simplification_prompt") =>
        /\ ~f_out.val.raised
        /\ Contains(f_out.val.val, BlockFor(level_instructions, f_in[2], "standard"))
        /\ \A b \in OtherBlocks(level_instructions,
                                BlockFor(level_instructions, f_in[2], "standard")) :
            ~Contains(f_out.val.val, b)
        /\ Contains(f_out.val.val,
                    BlockFor(audience_instructions, f_in[3], "general_public"))
        /\ \A b \in OtherBlocks(audience_instructions,
                                BlockFor(audience_instructions, f_in[3],
                                         "general_public")) :
            ~Contains(f_out.val.val, b)

\* an unknown level and an unknown audience got the default blocks
C18_Witness ==
    /\ Applied("create_simplification_prompt")
    /\ f_in = <<"Doc.", "expert", "lawyers">>
    /\ ~f_out.val.raised
    /\ Contains(f_out.val.val, level_instructions["standard"])
    /\ Contains(f_out.val.val, audience_instructions["general_public"])

\* C19 as stated: a cleaned text longer than B = 4 x MAX_TOKENS comes back as
\* its first B characters followed by "...", a shorter one without a marker,
\* and the result has at most B + 3 characters.
C19_FirstBThenMarker ==
    Applied("preprocess_text") =>
        /\ Len(Substitutions(f_in)) > max_chars
            => f_out.val = Slice(Substitutions(f_in), 1, max_chars) \o "..."
        /\ Len(Substitutions(f_in)) <= max_chars
            => f_out.val \in {Substitutions(f_in), Strip(Substitutions(f_in))}
        /\ Len(f_out.val) <= max_chars + 3

\* C19 (amended): the first B characters followed by "..." come back with the
\* leading whitespace trimmed off, a shorter cleaned text comes back trimmed
\* and without a marker, and the result has at most B + 3 characters.
C19_FirstBThenMarkerTrimmed ==
    Applied("preprocess_text") =>
        /\ Len(Substitutions(f_in)) > max_chars
            => f_out.val = LStrip(Slice(Substitutions(f_in), 1, max_chars)) \o "..."
        /\ Len(Substitutions(f_in)) <= max_chars
            => f_out.val = Strip(Substitutions(f_in))
        /\ Len(f_out.val) <= max_chars + 3

\* a text of B + 1 characters that starts with a space is cut, marked and
\* trimmed to B + 2
C19_Witness ==
    /\ Applied("preprocess_text")
    /\ f_in = Sp \o Rep("a", max_chars)
    /\ f_out.val = Rep("a", max_chars - 1) \o "..."

\* text is, character for character, the bytes b
Verbatim(text, b) ==
    Len(text) = Len(b) /\ \A i \in 1..Len(b) : At(text, i) = b[i]

\* ' '.join(text.split()): the words of the text, one space between them
RECURSIVE SpaceJoined(_)
SpaceJoined(text) ==
    LET t == Strip(text)
        i == FirstOf(t, Whitespace)
    IN  IF i = 0 THEN t
        ELSE SubSeq(t, 1, i - 1) \o Sp \o SpaceJoined(From(t, i))

\* the text with every run of whitespace replaced by one space, nothing else
\* removed
RunsCollapsed(text) ==
    (IF Len(text) > 0 /\ IsSpace(At(text, 1)) THEN Sp ELSE "")
        \o SpaceJoined(text)
        \o (IF Len(Strip(text)) > 0 /\ IsSpace(At(text, Len(text))) THEN Sp ELSE "")

\* a text none of the artifact patterns of _preprocess_text can match: no
\* bracket or parenthesis pair, no 'Page ', and not digits only
ArtifactFree(text) ==
    /\ FirstOf(text, {"[", "("}) = 0
    /\ ~Contains(text, "Page ")
    /\ \E i \in 1..Len(text) : At(text, i) \notin Digits \cup Whitespace

MaxDocuments == 2

\* the ids a request may name: of stored documents, and of one that is not
DocumentIds == {"d1", "d2", "gone"}
Stored == {"d1", "d2"}

ProcessingStatus == {"uploaded", "processing", "completed", "failed"}

\* how a process_document call ends
NoOutcome == [raised |-> FALSE, http |-> FALSE, status_code |-> 0]
Completes == [raised |-> FALSE, http |-> FALSE, status_code |-> 200]
HTTPException(code) == [raised |-> TRUE, http |-> TRUE, status_code |-> code]

NoCall ==
    [pc |-> "idle", document_id |-> "", found |-> FALSE, updates_ok |-> TRUE,
     outcome |-> NoOutcome]

NoResponse ==
    [status |-> "pending", total_documents |-> 0, processed_documents |-> 0,
     failed_documents |-> 0]

\* BatchProcessingResponse
BatchProcessingResponse(total, processed, failed) ==
    [status |-> "returned", total_documents |-> total,
     processed_documents |-> processed, failed_documents |-> failed]

\* the except clause of the outer try of batch_process_documents
BatchFailed ==
    [status |-> "raised", total_documents |-> 0, processed_documents |-> 0,
     failed_documents |-> 0]

\* an except clause in the loop that lets an HTTPException through
BatchCatches_NotHTTPException(outcome) == ~outcome.http

\* `except Exception as e` in the loop of batch_process_documents
BatchCatches(outcome) == TRUE

\* StorageService.update_metadata as process_document sees it: the status is
\* written, or the call raises and the table is as it was
UpdateStatus(table, id, st, ok) == IF ok THEN [table EXCEPT ![id] = st] ELSE table

InitBatch ==
    /\ IdleExtract
    /\ IdleNormalize
    /\ IdleSimplify
    /\ IdlePool
    /\ IdleFunctions
    /\ IdleStorage
    /\ r_table \in [Stored -> {"uploaded", "completed"}]
    /\ \E ids \in SeqsUpTo(DocumentIds, MaxDocuments) :
        r_batch = [document_ids |-> ids, index |-> 1, results |-> <<>>,
                   errors |-> <<>>, response |-> NoResponse]
    /\ r_call = NoCall

\* the loop of batch_process_documents calls process_document on the next id
BatchCall ==
    /\ r_batch.response.status = "pending"
    /\ r_call.pc = "idle"
    /\ r_batch.index <= Len(r_batch.document_ids)
    /\ r_call' = [NoCall EXCEPT !.pc = "get_document_metadata",
                                !.document_id = r_batch.document_ids[r_batch.index]]
    /\ UNCHANGED <<r_table, r_batch>>
    /\ UNCHANGED <<evars, nvars, svars, qvars, fvars, mvars>>

\* process_document ends with the outcome
Finished(outcome) == r_call' = [r_call EXCEPT !.pc = "finished", !.outcome = outcome]

\* get_document_metadata: the row, or None (no row, or the query failed);
\* None is HTTP 404
GetDocumentMetadata ==
    /\ r_call.pc = "get_document_metadata"
    /\ \E row \in (IF r_call.document_id \in Stored THEN BOOLEAN ELSE {FALSE}) :
        IF row
        THEN r_call' = [r_call EXCEPT !.pc = "processing", !.found = TRUE]
        ELSE Finished(HTTPException(404))
    /\ UNCHANGED <<r_table, r_batch>>
    /\ UNCHANGED <<evars, nvars, svars, qvars, fvars, mvars>>

\* status PROCESSING; a failure of update_metadata is logged and passed over
MarkProcessing ==
    /\ r_call.pc = "processing"
    /\ \E ok \in BOOLEAN :
        /\ r_table' = UpdateStatus(r_table, r_call.document_id, "processing", ok)
        /\ r_call' = [r_call EXCEPT !.pc = "extract_text",
                                    !.updates_ok = r_call.updates_ok /\ ok]
    /\ UNCHANGED r_batch
    /\ UNCHANGED <<evars, nvars, svars, qvars, fvars, mvars>>

\* extract_text: a text, or None or '' and with it HTTP 422
ExtractText ==
    /\ r_call.pc = "extract_text"
    /\ \E extracted_text \in BOOLEAN :
        IF extracted_text
        THEN r_call' = [r_call EXCEPT !.pc = "simplify_document"]
        ELSE Finished(HTTPException(422))
    /\ UNCHANGED <<r_table, r_batch>>
    /\ UNCHANGED <<evars, nvars, svars, qvars, fvars, mvars>>

\* simplify_document and the SimplifiedDocument built from it: done, or an
\* exception that the except clause takes
CallSimplifyDocument ==
    /\ r_call.pc = "simplify_document"
    /\ \E raised \in BOOLEAN :
        r_call' = [r_call EXCEPT !.pc = IF raised THEN "except" ELSE "completed"]
    /\ UNCHANGED <<r_table, r_batch>>
    /\ UNCHANGED <<evars, nvars, svars, qvars, fvars, mvars>>

\* status COMPLETED; a failure of update_metadata is logged and passed over
MarkCompleted ==
    /\ r_call.pc = "completed"
    /\ \E ok \in BOOLEAN :
        /\ r_table' = UpdateStatus(r_table, r_call.document_id, "completed", ok)
        /\ r_call' = [r_call EXCEPT !.pc = "store_simplified_document",
                                    !.updates_ok = r_call.updates_ok /\ ok]
    /\ UNCHANGED r_batch
    /\ UNCHANGED <<evars, nvars, svars, qvars, fvars, mvars>>

\* store_simplified_document, then the analytics task and the return
StoreSimplifiedDocument ==
    /\ r_call.pc = "store_simplified_document"
    /\ \E raised \in BOOLEAN :
        IF raised
        THEN r_call' = [r_call EXCEPT !.pc = "except"]
        ELSE Finished(Completes)
    /\ UNCHANGED <<r_table, r_batch>>
    /\ UNCHANGED <<evars, nvars, svars, qvars, fvars, mvars>>

\* `except Exception`: the metadata is read again and, when it is there,
\* written with status FAILED; whatever fails in that is passed over; HTTP 500
ExceptException ==
    /\ r_call.pc = "except"
    /\ \E row \in BOOLEAN, ok \in BOOLEAN :
        /\ r_table' = UpdateStatus(r_table, r_call.document_id, "failed", row /\ ok)
        /\ r_call' = [r_call EXCEPT
                        !.pc = "finished",
                        !.outcome = HTTPException(500),
                        !.found = r_call.found /\ row,
                        !.updates_ok = r_call.updates_ok /\ (row => ok)]
    /\ UNCHANGED r_batch
    /\ UNCHANGED <<evars, nvars, svars, qvars, fvars, mvars>>

Entry(i, id, outcome) == [index |-> i, document_id |-> id, status_code |-> outcome.status_code]

\* process_document is back in the loop: its result is appended to results,
\* an exception the loop catches to errors; one it does not catch reaches the
\* outer except clause
BatchCollect ==
    /\ r_call.pc = "finished"
    /\ r_call' = NoCall
    /\ LET e == Entry(r_batch.index, r_call.document_id, r_call.outcome) IN
        IF ~r_call.outcome.raised
        THEN r_batch' = [r_batch EXCEPT !.results = Append(@, e),
                                        !.index = @ + 1]
        ELSE IF BatchCatches(r_call.outcome)
        THEN r_batch' = [r_batch EXCEPT !.errors = Append(@, e),
                                        !.index = @ + 1]
        ELSE r_batch' = [r_batch EXCEPT !.response = BatchFailed]
    /\ UNCHANGED r_table
    /\ UNCHANGED <<evars, nvars, svars, qvars, fvars, mvars>>

\* after the loop: the response with the three counts
BatchRespond ==
    /\ r_batch.response.status = "pending"
    /\ r_call.pc = "idle"
    /\ r_batch.index > Len(r_batch.document_ids)
    /\ r_batch' = [r_batch EXCEPT !.response =
                        BatchProcessingResponse(Len(r_batch.document_ids),
                                                Len(r_batch.results),
                                                Len(r_batch.errors))]
    /\ UNCHANGED <<r_table, r_call>>
    /\ UNCHANGED <<evars, nvars, svars, qvars, fvars, mvars>>

NextBatch ==
    \/ BatchCall
    \/ GetDocumentMetadata
    \/ MarkProcessing
    \/ ExtractText
    \/ CallSimplifyDocument
    \/ MarkCompleted
    \/ StoreSimplifiedDocument
    \/ ExceptException
    \/ BatchCollect
    \/ BatchRespond

SpecBatch == InitBatch /\ [][NextBatch]_vars

\* C27: with metadata updates that succeed, a finished process_document of
\* an existing document leaves the status COMPLETED when it returned and
\* FAILED when it ended with an error, never PROCESSING.
C27_NeverLeftProcessing ==
    (r_call.pc = "finished" /\ r_call.found /\ r_call.updates_ok) =>
        r_table[r_call.document_id]
            = IF r_call.outcome.raised THEN "failed" ELSE "completed"

\* the positions in document_ids the entries of a list are for
IndicesOf(entries) == {entries[k].index : k \in DOMAIN entries}

\* C28: every requested document gives one entry, in results or in errors:
\* the positions done so far are each in exactly one list, once; the batch
\* never ends with an error of a document; and the response has
\* processed_documents + failed_documents = total_documents, with every
\* document after a failed one processed.
C28_EveryDocumentAccounted ==
    /\ IndicesOf(r_batch.results) \cap IndicesOf(r_batch.errors) = {}
    /\ IndicesOf(r_batch.results) \cup IndicesOf(r_batch.errors)
            = 1..(r_batch.index - 1)
    /\ Len(r_batch.results) + Len(r_batch.errors) = r_batch.index - 1
    /\ \A k \in DOMAIN r_batch.results :
        r_batch.results[k].document_id = r_batch.document_ids[r_batch.results[k].index]
    /\ \A k \in DOMAIN r_batch.errors :
        r_batch.errors[k].document_id = r_batch.document_ids[r_batch.errors[k].index]
    /\ r_batch.response.status # "raised"
    /\ r_batch.response.status = "returned" =>
        /\ r_batch.index = Len(r_batch.document_ids) + 1
        /\ r_batch.response.total_documents = Len(r_batch.document_ids)
        /\ r_batch.response.processed_documents = Len(r_batch.results)
        /\ r_batch.response.failed_documents = Len(r_batch.errors)
        /\ r_batch.response.processed_documents + r_batch.response.failed_documents
                = r_batch.response.total_documents

\* the first document was not found (HTTP 404) and the second was processed
C28_Witness ==
    /\ r_batch.response.status = "returned"
    /\ r_batch.document_ids = <<"gone", "d1">>
    /\ Len(r_batch.errors) = 1
    /\ r_batch.errors[1].index = 1
    /\ r_batch.errors[1].status_code = 404
    /\ Len(r_batch.results) = 1
    /\ r_batch.results[1].index = 2
    /\ r_table["d1"] = "completed"

(***************************************************************************)
(* Specification SpecStorage: the retry loops of store_metadata and        *)
(* update_metadata                                                         *)
(***************************************************************************)
\* `for attempt in range(3)` and `attempt == 2`, `attempt < 2` in store_metadata
STORE_ATTEMPTS == 3
LAST_STORE_ATTEMPT == 2
\* `for attempt in range(5)` and `min(2 ** attempt, 10)` in update_metadata
UPDATE_ATTEMPTS == 5
MAX_UPDATE_SLEEP == 10

\* what one attempt may give: success, row errors reported by the insert, or
\* an exception, a GoogleCloudError or not, whose text may mention the
\* streaming buffer
Outcome(kind, cloud, streaming) == [kind |-> kind, cloud |-> cloud, streaming |-> streaming]
InsertOutcomes ==
    {Outcome("ok", FALSE, FALSE)}
        \cup {Outcome("errors", FALSE, s) : s \in BOOLEAN}
        \cup {Outcome("raised", c, s) : c \in BOOLEAN, s \in BOOLEAN}
QueryOutcomes ==
    {Outcome("ok", FALSE, FALSE)}
        \cup {Outcome("raised", c, s) : c \in BOOLEAN, s \in BOOLEAN}

\* the DocumentMetadata a call is given
Metadatas == [document_id : Stored, status : ProcessingStatus]

\* a loop that goes on after every failed insert
InsertRetries_Always(outcome, attempt) == outcome.kind # "ok"

\* store_metadata goes on to the next attempt: after row errors unless this
\* was the last attempt, after an exception that mentions the streaming
\* buffer before the last attempt
InsertRetries(outcome, attempt) ==
    IF outcome.kind = "errors" THEN attempt # LAST_STORE_ATTEMPT
    ELSE outcome.kind = "raised" /\ outcome.streaming /\ attempt < LAST_STORE_ATTEMPT

\* asyncio.sleep(1) after row errors, asyncio.sleep(2 ** attempt) after an exception
InsertSleep(outcome, attempt) == IF outcome.kind = "errors" THEN 1 ELSE 2 ^ attempt

\* a loop that goes on after every GoogleCloudError
UpdateRetries_AnyCloudError(outcome) == outcome.kind = "raised" /\ outcome.cloud

\* update_metadata goes on to the next attempt: after a GoogleCloudError that
\* mentions the streaming buffer
UpdateRetries(outcome) ==
    outcome.kind = "raised" /\ outcome.cloud /\ outcome.streaming

\* asyncio.sleep(min(2 ** attempt, 10))
UpdateSleep(attempt) ==
    IF 2 ^ attempt < MAX_UPDATE_SLEEP THEN 2 ^ attempt ELSE MAX_UPDATE_SLEEP

Call(op, metadata, start) ==
    [op |-> op, metadata |-> metadata, pc |-> start, attempt |-> 0, log |-> <<>>,
     sleeps |-> <<>>, result |-> "pending"]

InitStorage ==
    /\ IdleExtract
    /\ IdleNormalize
    /\ IdleSimplify
    /\ IdlePool
    /\ IdleFunctions
    /\ IdleBatch
    /\ m_table \in {{}, {[document_id |-> "d1", status |-> "uploaded"]}}
    /\ \E metadata \in Metadatas :
        \/ m_call = Call("store_metadata", metadata, "get_table")
        \/ m_call = Call("update_metadata", metadata, "query")

\* the call ends: it returns or raises
Ends(how) == [m_call EXCEPT !.pc = "done", !.result = how]

\* store_metadata up to the loop: get_table and the row may raise
GetTable ==
    /\ m_call.pc = "get_table"
    /\ \E raised \in BOOLEAN :
        m_call' = IF raised THEN Ends("raised") ELSE [m_call EXCEPT !.pc = "insert"]
    /\ UNCHANGED m_table
    /\ UNCHANGED <<evars, nvars, svars, qvars, fvars, rvars>>

\* one attempt of store_metadata: insert_rows_json and what follows from it
InsertRowsJson ==
    /\ m_call.pc = "insert"
    /\ \E outcome \in InsertOutcomes :
        LET logged == [m_call EXCEPT !.log = Append(@, outcome)] IN
        /\ m_table' = IF outcome.kind = "ok" THEN m_table \cup {m_call.metadata}
                      ELSE m_table
        /\ m_call' =
            IF outcome.kind = "ok"
            THEN [logged EXCEPT !.pc = "done", !.result = "returned"]
            ELSE IF InsertRetries(outcome, m_call.attempt)
            THEN [logged EXCEPT !.pc = "sleep",
                                !.sleeps = Append(@, InsertSleep(outcome, m_call.attempt))]
            ELSE [logged EXCEPT !.pc = "done", !.result = "raised"]
    /\ UNCHANGED <<evars, nvars, svars, qvars, fvars, rvars>>

\* the UPDATE statement on the rows of the document
Updated(table, metadata) ==
    {IF row.document_id = metadata.document_id
     THEN [row EXCEPT !.status = metadata.status] ELSE row : row \in table}

\* one attempt of update_metadata: the query job and what follows from it
RunQuery ==
    /\ m_call.pc = "query"
    /\ \E outcome \in QueryOutcomes :
        LET logged == [m_call EXCEPT !.log = Append(@, outcome)] IN
        /\ m_table' = IF outcome.kind = "ok" THEN Updated(m_table, m_call.metadata)
                      ELSE m_table
        /\ m_call' =
            IF outcome.kind = "ok"
            THEN [logged EXCEPT !.pc = "done", !.result = "returned"]
            ELSE IF UpdateRetries(outcome)
            THEN [logged EXCEPT !.pc = "sleep",
                                !.sleeps = Append(@, UpdateSleep(m_call.attempt))]
            ELSE [logged EXCEPT !.pc = "done", !.result = "raised"]
    /\ UNCHANGED <<evars, nvars, svars, qvars, fvars, rvars>>

\* the sleep is over and the loop takes the next attempt; when there is none
\* left, store_metadata runs off its end and update_metadata raises
Sleep ==
    /\ m_call.pc = "sleep"
    /\ m_call' =
        IF m_call.op = "store_metadata"
        THEN IF m_call.attempt + 1 < STORE_ATTEMPTS
             THEN [m_call EXCEPT !.pc = "insert", !.attempt = @ + 1]
             ELSE [m_call EXCEPT !.pc = "done", !.result = "returned"]
        ELSE IF m_call.attempt + 1 < UPDATE_ATTEMPTS
             THEN [m_call EXCEPT !.pc = "query", !.attempt = @ + 1]
             ELSE [m_call EXCEPT !.pc = "done", !.result = "raised"]
    /\ UNCHANGED m_table
    /\ UNCHANGED <<evars, nvars, svars, qvars, fvars, rvars>>

NextStorage ==
    \/ GetTable
    \/ InsertRowsJson
    \/ RunQuery
    \/ Sleep

SpecStorage == InitStorage /\ [][NextStorage]_vars

\* the last attempt made
LastAttempt == m_call.log[Len(m_call.log)]

\* C29: store_metadata makes at most 3 insert attempts; it returns only
\* after an attempt whose insert reported no errors, with the row stored; a
\* failed third attempt raises; it is over exactly when it returned or raised.
C29_StoreMetadataBounded ==
    m_call.op = "store_metadata" =>
        /\ Len(m_call.log) <= STORE_ATTEMPTS
        /\ m_call.attempt < STORE_ATTEMPTS
        /\ m_call.result = "returned" =>
            /\ Len(m_call.log) >= 1
            /\ LastAttempt.kind = "ok"
            /\ m_call.metadata \in m_table
        /\ (Len(m_call.log) = STORE_ATTEMPTS /\ LastAttempt.kind # "ok") =>
            m_call.result = "raised"
        /\ (m_call.pc = "done") = (m_call.result # "pending")

\* two failed attempts, one with row errors and one with an exception, and
\* a third that stored the row
C29_Witness ==
    /\ m_call.op = "store_metadata"
    /\ Len(m_call.log) = STORE_ATTEMPTS
    /\ m_call.log[1].kind = "errors"
    /\ m_call.log[2].kind = "raised"
    /\ m_call.log[3].kind = "ok"
    /\ m_call.sleeps = <<1, 2>>
    /\ m_call.result = "returned"

\* C30: update_metadata makes at most 5 query attempts; every attempt but
\* the last ended in a cloud error that mentions the streaming buffer; any
\* other error raises at once; the fifth streaming-buffer failure raises; it
\* returns only after an attempt that succeeded.
C30_UpdateMetadataBounded ==
    m_call.op = "update_metadata" =>
        /\ Len(m_call.log) <= UPDATE_ATTEMPTS
        /\ \A i \in 1..(Len(m_call.log) - 1) :
            /\ m_call.log[i].kind = "raised"
            /\ m_call.log[i].cloud
            /\ m_call.log[i].streaming
        /\ m_call.result = "returned" =>
            Len(m_call.log) >= 1 /\ LastAttempt.kind = "ok"
        /\ (Len(m_call.log) >= 1 /\ LastAttempt.kind = "raised"
                /\ ~(LastAttempt.cloud /\ LastAttempt.streaming)) =>
            m_call.result = "raised"
        /\ (Len(m_call.log) = UPDATE_ATTEMPTS /\ LastAttempt.kind # "ok"
                /\ m_call.pc = "done") =>
            m_call.result = "raised"
        /\ (m_call.pc = "done") = (m_call.result # "pending")
        /\ (m_call.pc = "done" /\ LastAttempt.kind # "ok"
                /\ LastAttempt.cloud /\ LastAttempt.streaming) =>
            Len(m_call.log) = UPDATE_ATTEMPTS

\* five streaming-buffer failures, the sleeps 1, 2, 4, 8, 10, then the raise
C30_Witness ==
    /\ m_call.op = "update_metadata"
    /\ Len(m_call.log) = UPDATE_ATTEMPTS
    /\ \A i \in 1..UPDATE_ATTEMPTS : m_call.log[i].cloud /\ m_call.log[i].streaming
    /\ m_call.sleeps = <<1, 2, 4, 8, 10>>
    /\ m_call.result = "raised"

====
